---- MODULE Spec2Model ----
(***************************************************************************)
(* LensOra / AssistIQ backend: the HTTP surface (backend/api/routes.py),   *)
(* the polling loop (backend/services/polling_service.py), the persistence *)
(* layer (backend/services/db_service.py), the ValidateTicket workflow and *)
(* its activities (backend/workflows), and the worker (backend/worker.py). *)
(*                                                                         *)
(* Modelling conventions.                                                  *)
(*  - The workflow engine, the ticket platform and the model providers are *)
(*    external collaborators: a call to one of them either succeeds or     *)
(*    raises, chosen nondeterministically.                                 *)
(*  - A coroutine step is one action from one suspension point (await) to  *)
(*    the next; code between two awaits runs without interleaving inside   *)
(*    the API process.                                                     *)
(*  - Names used across modules (activity names, dataclass fields,         *)
(*    settings attributes) are taken to resolve to the definition of the   *)
(*    same role; task-queue names are kept as written.                     *)
(*  - Timestamps are whole seconds; the ISO-8601 strings the code compares *)
(*    are fixed-width renderings of them, so string order is number order. *)
(***************************************************************************)
EXTENDS Integers, Sequences, FiniteSets, TLC

\* ------------------------------------------------------------------ bounds
NumReqs == 2
MaxClock == 27
MaxRuns == 2
MaxEvents == 1

\* --------------------------------------------------------------- constants
_GEN_RATE_LIMIT_SECONDS == 25
LOW_INFO_LEN == 120

Keys == {"K1", "K2"}
Reqs == 1..NumReqs
None == "None"

ApiQueue == "assistiq-task-queue"
PollerQueue == "lensora-task-queue"
WorkerQueue == "lensora-task-queue"

TERMINATE_IF_RUNNING == "TERMINATE_IF_RUNNING"

\* lengths of the bundled text a ticket can have, around the low-info bound
TextLens == {119, 120}

VARIABLES
    now,                     \* wall clock (time.time(), now())
    _last_generation,        \* routes.py: ticket key -> time of last accept (0: absent)
    _inflight,               \* routes.py: set of ticket keys being generated
    _active_sessions,        \* routes.py: ticket key -> started (0: absent)
    _session_solution_cache, \* routes.py: ticket key -> status of cached payload
    req,                     \* generate-solutions requests (coroutines)
    runs,                    \* workflow executions known to the engine
    validations_log,         \* table validations_log: set of rows
    ticket_events,           \* table ticket_events: ticket key -> event type -> count
    last_applied,            \* history: ticket key -> verdict of the last committed upsert
    jira_updated,            \* ticket platform: ticket key -> fields.updated
    jira_assignee,           \* ticket platform: ticket key -> assignee account id
    temporal_client,         \* PollingService.temporal_client is connected
    poll_pc,                 \* position of start_polling: "sleep" or "dispatch"
    known_statuses,          \* start_polling local: statuses read in this cycle
    check_errors,            \* start_polling: keys whose update check raised in this cycle
    tickets_to_process,      \* start_polling local: keys still to dispatch
    llm,                     \* one call of LLMService.get_validation_verdict
    guard,                   \* one call of validate_solution: arguments and result
    prio,                    \* one call of classify_priority: arguments and result
    dedup,                   \* duplicate detection of get_llm_verdict_activity
    res,                     \* one run of find_and_synthesize_solutions_activity
    pub,                     \* the publish path: post-solution runs and resolution_log
    nap,                     \* start_polling: the sleep that ended the last iteration
    prov,                    \* one model-provider call and the ticket text it carries
    schema,                  \* the database schema and rows across runs of _ensure_schema_extensions
    ws,                      \* one call of WebSearchService.search and table external_search_audit
    hook,                    \* the last POST /jira-webhook: payload, what it did, its answer
    clus,                    \* one call of cluster_embeddings: its embeddings and the indices returned
    docs                     \* table external_docs and the day the ingest service runs on

genVars == <<_last_generation, _inflight, _active_sessions, _session_solution_cache, req>>
dbVars == <<validations_log, ticket_events, last_applied>>
jiraVars == <<jira_updated, jira_assignee>>
pollVars == <<temporal_client, poll_pc, known_statuses, check_errors, tickets_to_process>>
extVars == <<pub, nap, prov, schema, ws, hook, clus, docs>>
svcVars == <<llm, guard, prio, dedup, res, extVars>>
\* everything but extVars
baseVars == <<now, _last_generation, _inflight, _active_sessions, _session_solution_cache,
             req, runs, validations_log, ticket_events, last_applied, jira_updated,
             jira_assignee, temporal_client, poll_pc, known_statuses, check_errors,
             tickets_to_process, llm, guard, prio, dedup, res>>
vars == <<now, _last_generation, _inflight, _active_sessions, _session_solution_cache, req,
          runs, validations_log, ticket_events, last_applied, jira_updated,
          jira_assignee, temporal_client, poll_pc, known_statuses, check_errors,
          tickets_to_process, svcVars>>

\* ------------------------------------------------------------- persistence
EventTypes == {"validated_complete", "validated_incomplete", "duplicate_short_circuit",
               "solutions_generated"}

\* verdicts a validation run can hand to log_validation_result
VerdictStatuses == {"complete", "incomplete", "error", "partial"}
Verdict(st, missing, dup) == [status |-> st, missing |-> missing, duplicate_of |-> dup]
\* no verdict applied yet
NoVerdict == Verdict(None, 0, None)
Verdicts == {Verdict("complete", 0, None), Verdict("incomplete", 1, None),
             Verdict("error", 0, None)}

RowsOf(k) == {row \in validations_log : row.ticket_key = k}

\* get_last_known_ticket_statuses: {row.ticket_key: row.status for row in results}
StatusOf(k) == IF RowsOf(k) = {} THEN None ELSE (CHOOSE row \in RowsOf(k) : TRUE).status

\* get_last_validation_timestamp: 0 stands for None
ValidatedAt(k) == IF RowsOf(k) = {} THEN 0 ELSE (CHOOSE row \in RowsOf(k) : TRUE).validated_at

\* get_validation_record(...)['duplicate_of']
DuplicateOf(k) == IF RowsOf(k) = {} THEN None ELSE (CHOOSE row \in RowsOf(k) : TRUE).duplicate_of

NextRowId(rows) == IF rows = {} THEN 1
                   ELSE 1 + (CHOOSE n \in {row.id : row \in rows} :
                                \A m \in {row.id : row \in rows} : m <= n)

MkRow(id, k, v, t) ==
    [id |-> id, ticket_key |-> k, status |-> v.status, missing |-> v.missing,
     duplicate_of |-> v.duplicate_of, validated_at |-> t]

\* a plain INSERT, as on a table without the unique constraint on ticket_key
Upsert_insert(rows, k, v, t) == rows \cup {MkRow(NextRowId(rows), k, v, t)}

\* INSERT ... ON CONFLICT (ticket_key) DO UPDATE SET ..., validated_at = now()
Upsert(rows, k, v, t) ==
    IF \E row \in rows : row.ticket_key = k
    THEN {IF row.ticket_key = k THEN MkRow(row.id, k, v, t) ELSE row : row \in rows}
    ELSE rows \cup {MkRow(NextRowId(rows), k, v, t)}

\* add_event: INSERT INTO ticket_events
add_event(ev, k, type) == [ev EXCEPT ![k][type] = @ + 1]

EventCount(k) ==
    ticket_events[k]["validated_complete"] + ticket_events[k]["validated_incomplete"]
    + ticket_events[k]["duplicate_short_circuit"] + ticket_events[k]["solutions_generated"]

\* rows in ticket_events
EventTotal == EventCount("K1") + EventCount("K2")

\* ------------------------------------------------------------------ engine
\* an id that differs from start to start
WorkflowId_perStart(wf, k) == <<wf, k, Len(runs)>>

\* id=f"validate-ticket-{ticket_key}" / id=f"find-resolution-{ticket_key}"
WorkflowId(wf, k) == <<wf, k>>

\* comments, reassigns: calls this execution made on the ticket platform;
\* comment_error, reassign_error: what the last side-effect attempt met
NewRun(wf, k, queue) ==
    [wf |-> wf, key |-> k, id |-> WorkflowId(wf, k), queue |-> queue,
     state |-> "running", pc |-> "fetch", attempt |-> 1,
     reporter |-> None, status |-> None, steps |-> <<>>,
     comments |-> 0, reassigns |-> 0,
     comment_error |-> FALSE, reassign_error |-> None]

\* id_reuse_policy=TERMINATE_IF_RUNNING: the running execution that holds
\* the id is terminated, then the new one is created
TerminateIfRunning(rs, id) ==
    [i \in DOMAIN rs |->
        IF rs[i].id = id /\ rs[i].state = "running"
        THEN [rs[i] EXCEPT !.state = "terminated"]
        ELSE rs[i]]

start_workflow(wf, k, queue, policy) ==
    /\ policy = TERMINATE_IF_RUNNING
    /\ Len(runs) < MaxRuns
    /\ runs' = Append(TerminateIfRunning(runs, WorkflowId(wf, k)),
                      NewRun(wf, k, queue))

\* ------------------------------------------------------------------- clock
Tick(d) ==
    /\ now + d <= MaxClock
    /\ now' = now + d

\* ------------------------------------------- routes.py: generate_solutions
IdleReq == [key |-> None, pc |-> "idle", guard |-> None, resp |-> None,
            textlen |-> 0, run |-> 0, wfStarts |-> 0, direct |-> 0,
            overlap |-> FALSE, raised |-> None, direct_text |-> None]

\* outcomes of the in-process find_and_synthesize_solutions_activity call
FallbackOutcomes == {"ok", "ValueError", "JIRAError", "Exception"}

FallbackResponse_jiraDetail(out) ==
    CASE out = "ok"         -> "success_fallback"
      [] out = "ValueError" -> "500_config"
      [] OTHER              -> "400_jira"
FallbackResponse(out) ==
    CASE out = "ok"         -> "success_fallback"
      [] out = "ValueError" -> "500_config"
      [] out = "JIRAError"  -> "400_jira"
      [] OTHER              -> "500_both"

\* the responses of the except branch that hold the text of the error that
\* led to it: temporal_error in the payload, "| Original: ..." in the
\* detail of the two 500 answers; the detail of the 400 answer has only
\* the JIRAError
CarriesOriginalError(resp) == resp \in {"success_fallback", "500_config", "500_both"}

\* a finally block that pops the session and leaves the in-flight marker
Finally_noDiscard(k, infl, sess) ==
    /\ _inflight' = infl
    /\ _active_sessions' = [sess EXCEPT ![k] = 0]

\* finally: _inflight.discard(ticket_key); _active_sessions.pop(ticket_key, None)
Finally(k, infl, sess) ==
    /\ _inflight' = infl \ {k}
    /\ _active_sessions' = [sess EXCEPT ![k] = 0]

\* except Exception as e: direct (in-process) execution of the activity,
\* then the finally block.  r1 is the request record at the raise; infl,
\* sess and cache are the module dictionaries at the raise; cause names the
\* statement that raised.  The activity gets bundled_text if the handler
\* had built it, the ticket key otherwise.  JIRAError can only come from
\* the import of jira_client in ResolutionActivities(), which cannot fail
\* once the handler's own import at line 291 has succeeded.
ExceptFallback(r, r1, infl, sess, cache, cause) ==
    \E out \in FallbackOutcomes :
        /\ out = "JIRAError" => r1.textlen = 0
        /\ req' = [req EXCEPT ![r] = [r1 EXCEPT !.pc = "done",
                                                !.resp = FallbackResponse(out),
                                                !.direct = @ + 1,
                                                !.raised = cause,
                                                !.direct_text =
                                                    IF r1.textlen > 0 THEN "bundled_text"
                                                    ELSE "ticket_key"]]
        /\ _session_solution_cache' =
              IF out = "ok" THEN [cache EXCEPT ![r1.key] = "success_fallback"] ELSE cache
        /\ Finally(r1.key, infl, sess)

\* the rate-limit / single-flight guard, lines 280-286
Guard(k) ==
    LET last == _last_generation[k] IN
    IF last # 0 /\ (now - last) < _GEN_RATE_LIMIT_SECONDS THEN "429"
    ELSE IF k \in _inflight THEN "409"
    ELSE None

\* some other request for k has been accepted and has not returned yet
Running(k) == \E q \in Reqs : req[q].key = k /\ req[q].guard = None
                              /\ req[q].pc \in {"connect", "start", "result"}

\* A request enters the handler and runs to its first await (Client.connect)
\* or to its return.
GenArrive(r, k) ==
    /\ req[r].pc = "idle"
    /\ \A q \in Reqs : q < r => req[q].pc # "idle"   \* the lowest free slot serves
    /\ UNCHANGED <<runs, now>>
    /\ LET g    == Guard(k)
           r0   == [req[r] EXCEPT !.key = k, !.guard = g, !.overlap = Running(k)]
           infl == _inflight \cup {k}
           sess == [_active_sessions EXCEPT ![k] = now]
       IN
       IF g # None
       THEN \* raise HTTPException(429 / 409) inside the try block
            /\ ExceptFallback(r, r0, _inflight, _active_sessions, _session_solution_cache,
                              "guard")
            /\ UNCHANGED <<_last_generation, ticket_events>>
       ELSE
            /\ _last_generation' = [_last_generation EXCEPT ![k] = now]
            /\ \/ \* jira_service.get_ticket_details or a db read raises
                  /\ ExceptFallback(r, r0, infl, sess, _session_solution_cache, "jira_db")
                  /\ UNCHANGED ticket_events
               \/ \* duplicate short-circuit, lines 297-310
                  /\ DuplicateOf(k) # None
                  /\ LET cache == [_session_solution_cache EXCEPT ![k] = "duplicate"] IN
                     \/ /\ EventTotal < MaxEvents
                        /\ ticket_events' = add_event(ticket_events, k, "duplicate_short_circuit")
                        /\ req' = [req EXCEPT ![r] = [r0 EXCEPT !.pc = "done",
                                                                !.resp = "duplicate"]]
                        /\ _session_solution_cache' = cache
                        /\ Finally(k, infl, sess)
                     \/ \* db_service.add_event raises
                        /\ ExceptFallback(r, r0, infl, sess, cache, "add_event")
                        /\ UNCHANGED ticket_events
               \/ \* bundled_text built; suspend in Client.connect
                  /\ DuplicateOf(k) = None
                  /\ \E len \in TextLens :
                        req' = [req EXCEPT ![r] = [r0 EXCEPT !.pc = "connect",
                                                             !.textlen = len]]
                  /\ _inflight' = infl
                  /\ _active_sessions' = sess
                  /\ UNCHANGED <<_session_solution_cache, ticket_events>>

\* await Client.connect(...) returns or raises; then the low-info check
GenConnect(r) ==
    /\ req[r].pc = "connect"
    /\ UNCHANGED <<_last_generation, runs, now, ticket_events>>
    /\ \/ ExceptFallback(r, req[r], _inflight, _active_sessions, _session_solution_cache,
                         "connect")
       \/ IF req[r].textlen < LOW_INFO_LEN
          THEN /\ req' = [req EXCEPT ![r].pc = "done", ![r].resp = "needs_more_info"]
               /\ _session_solution_cache' =
                     [_session_solution_cache EXCEPT ![req[r].key] = "needs_more_info"]
               /\ Finally(req[r].key, _inflight, _active_sessions)
          ELSE /\ req' = [req EXCEPT ![r].pc = "start"]
               /\ UNCHANGED <<_inflight, _active_sessions, _session_solution_cache>>

\* await client.start_workflow("FindResolutionWorkflow", ...) returns or raises
GenStart(r) ==
    /\ req[r].pc = "start"
    /\ UNCHANGED <<_last_generation, now, ticket_events>>
    /\ \/ /\ ExceptFallback(r, req[r], _inflight, _active_sessions, _session_solution_cache,
                            "start_workflow")
          /\ UNCHANGED runs
       \/ /\ start_workflow("FindResolution", req[r].key, ApiQueue, TERMINATE_IF_RUNNING)
          /\ req' = [req EXCEPT ![r].pc = "result", ![r].run = Len(runs) + 1,
                                ![r].wfStarts = @ + 1]
          /\ UNCHANGED <<_inflight, _active_sessions, _session_solution_cache>>

\* await handle.result() returns the workflow's result or raises
GenResult(r) ==
    /\ req[r].pc = "result"
    /\ runs[req[r].run].state # "running"
    /\ UNCHANGED <<_last_generation, runs, now>>
    /\ IF runs[req[r].run].state = "completed"
       THEN LET cache == [_session_solution_cache EXCEPT ![req[r].key] = "success"] IN
            \/ \* payload built, cached, solutions_generated event written
               /\ EventTotal < MaxEvents
               /\ ticket_events' = add_event(ticket_events, req[r].key, "solutions_generated")
               /\ req' = [req EXCEPT ![r].pc = "done", ![r].resp = "success"]
               /\ _session_solution_cache' = cache
               /\ Finally(req[r].key, _inflight, _active_sessions)
            \/ \* db_service.add_event raises
               /\ ExceptFallback(r, req[r], _inflight, _active_sessions, cache, "add_event")
               /\ UNCHANGED ticket_events
       ELSE /\ ExceptFallback(r, req[r], _inflight, _active_sessions, _session_solution_cache,
                             "result")
            /\ UNCHANGED ticket_events

\* the response has been sent; the coroutine is gone
GenReturn(r) ==
    /\ req[r].pc = "done"
    /\ req' = [req EXCEPT ![r] = IdleReq]
    /\ UNCHANGED <<now, _last_generation, _inflight, _active_sessions,
                   _session_solution_cache, runs, ticket_events>>

\* ------------------------- activities.py: log_validation_result_activity
\* The activity is registered with the worker (worker.py:39); it calls
\* db_service.log_validation_result and turns an exception into a message.
log_validation_result_activity(k, v) ==
    /\ UNCHANGED <<now, genVars, runs, jiraVars, pollVars>>
    /\ \/ \* db.execute / db.commit raises: nothing is written
          UNCHANGED dbVars
       \/ /\ validations_log' = Upsert(validations_log, k, v, now)
          /\ last_applied' = [last_applied EXCEPT ![k] = v]
          /\ \/ /\ EventTotal < MaxEvents
                /\ ticket_events' = add_event(ticket_events, k,
                                       IF v.status = "complete" THEN "validated_complete"
                                                                ELSE "validated_incomplete")
             \/ \* add_event raises; caught at db_service.py:123
                UNCHANGED ticket_events

\* ------------------------------------------------- polling_service.py loop
KeySeq == <<"K1", "K2">>     \* issues returned by search_issues(jql_query)

\* the classification without the skip of complete tickets
Classify_noSkip(last_status, last_updated, last_validated, raised) ==
    IF last_status = "incomplete"
    THEN IF raised THEN "incomplete"
         ELSE IF last_validated # 0 /\ last_updated > last_validated
              THEN "incomplete"
              ELSE "unchanged"
    ELSE "new"

\* category of one ticket key, lines 100-127
Classify(last_status, last_updated, last_validated, raised) ==
    IF last_status = "complete" THEN "complete"
    ELSE IF last_status = "incomplete"
         THEN IF raised THEN "incomplete"
              ELSE IF last_validated # 0 /\ last_updated > last_validated
                   THEN "incomplete"
                   ELSE "unchanged"
         ELSE "new"

CategoryOf(k, errs) == Classify(StatusOf(k), jira_updated[k], ValidatedAt(k), k \in errs)

IsNewTicket(k, errs) == CategoryOf(k, errs) = "new"
IsIncompleteTicket(k, errs) == CategoryOf(k, errs) = "incomplete"

\* tickets_to_process = new_tickets + incomplete_tickets
ToProcess(errs) ==
    SelectSeq(KeySeq, LAMBDA k : IsNewTicket(k, errs))
    \o SelectSeq(KeySeq, LAMBDA k : IsIncompleteTicket(k, errs))

\* one iteration of the while loop up to the dispatch loop
PollCycle ==
    /\ poll_pc = "sleep"
    /\ UNCHANGED <<now, genVars, runs, dbVars, jiraVars>>
    /\ \/ \* _ensure_client_connected raised, or a connection-class error:
          \* the client is reset and the loop sleeps
          /\ temporal_client' = FALSE
          /\ UNCHANGED <<poll_pc, known_statuses, check_errors, tickets_to_process>>
       \/ \* search_issues or the status query raised another error
          /\ temporal_client' = TRUE
          /\ UNCHANGED <<poll_pc, known_statuses, check_errors, tickets_to_process>>
       \/ \E errs \in SUBSET {k \in Keys : StatusOf(k) = "incomplete"} :
             /\ temporal_client' = TRUE
             /\ tickets_to_process' = ToProcess(errs)
             /\ IF ToProcess(errs) = <<>>
                THEN UNCHANGED <<poll_pc, known_statuses, check_errors>>
                ELSE /\ poll_pc' = "dispatch"
                     /\ known_statuses' = [k \in Keys |-> StatusOf(k)]
                     /\ check_errors' = errs

\* trigger_workflow(ticket_key) for the next key of tickets_to_process
trigger_workflow ==
    /\ poll_pc = "dispatch"
    /\ tickets_to_process # <<>>
    /\ UNCHANGED <<now, genVars, dbVars, jiraVars, temporal_client>>
    /\ tickets_to_process' = Tail(tickets_to_process)
    /\ IF Tail(tickets_to_process) = <<>>
       THEN \* the iteration ends; its locals are rebound by the next one
            /\ poll_pc' = "sleep"
            /\ known_statuses' = [k \in Keys |-> None]
            /\ check_errors' = {}
       ELSE UNCHANGED <<poll_pc, known_statuses, check_errors>>
    /\ \/ start_workflow("ValidateTicket", Head(tickets_to_process), PollerQueue,
                         TERMINATE_IF_RUNNING)
       \/ \* start_workflow raised; logged, the loop continues
          UNCHANGED runs

\* ---------------------------------------- routes.py: webhook, manual start
WebhookEvents == {"jira:issue_created", "jira:issue_updated", "comment_created"}

handle_jira_webhook(k, ev) ==
    /\ UNCHANGED <<now, genVars, dbVars, jiraVars, pollVars>>
    /\ IF ev \in {"jira:issue_created", "jira:issue_updated"}
       THEN \/ start_workflow("ValidateTicket", k, ApiQueue, TERMINATE_IF_RUNNING)
            \/ UNCHANGED runs      \* connect or start raised; printed
       ELSE UNCHANGED runs

trigger_validation(k) ==
    /\ UNCHANGED <<now, genVars, dbVars, jiraVars, pollVars>>
    /\ \/ start_workflow("ValidateTicket", k, ApiQueue, TERMINATE_IF_RUNNING)
       \/ UNCHANGED runs           \* HTTP 500

\* a user edits the ticket on the platform
UserEdit(k) ==
    /\ jira_updated[k] # now
    /\ jira_updated' = [jira_updated EXCEPT ![k] = now]
    /\ UNCHANGED <<now, genVars, runs, dbVars, jira_assignee, pollVars>>

\* ------------------------------ worker.py + validate_ticket.py: the worker
MAXIMUM_ATTEMPTS == 3        \* RetryPolicy(maximum_attempts=3)

\* the worker polls task_queue="lensora-task-queue" only
Executable(i) ==
    /\ i \in DOMAIN runs
    /\ runs[i].wf = "ValidateTicket"
    /\ runs[i].state = "running"
    /\ runs[i].queue = WorkerQueue

\* an activity attempt raised: the engine retries it up to maximum_attempts,
\* then the ActivityError fails the workflow
ActivityFailed(run) ==
    IF run.attempt < MAXIMUM_ATTEMPTS
    THEN [run EXCEPT !.attempt = @ + 1]
    ELSE [run EXCEPT !.state = "failed"]

\* every attempt of an activity without effect on the ticket raised
ActivityExhausted(run) == [run EXCEPT !.state = "failed"]

\* every verdict but complete sends the comment
SideEffectActivity_notComplete(status) ==
    IF status # "complete" THEN "comment_and_reassign_activity" ELSE None

\* the activity the workflow runs after the verdict, lines 78-95
SideEffectActivity(status) ==
    IF status = "incomplete" THEN "comment_and_reassign_activity" ELSE None

\* 1. fetch the ticket context
WfFetch(i) ==
    /\ Executable(i)
    /\ runs[i].pc = "fetch"
    /\ UNCHANGED <<now, genVars, dbVars, jiraVars, pollVars>>
    /\ \/ \E rep \in {None, "acct"} :
             runs' = [runs EXCEPT ![i] = [@ EXCEPT !.pc = "verdict", !.attempt = 1,
                                                   !.reporter = rep,
                                                   !.steps = Append(@, "fetch_context")]]
       \/ runs' = [runs EXCEPT ![i] = ActivityExhausted(@)]

\* 2. get_llm_verdict_activity, then the branch on validation_status
WfVerdict(i) ==
    /\ Executable(i)
    /\ runs[i].pc = "verdict"
    /\ UNCHANGED <<now, genVars, dbVars, jiraVars, pollVars>>
    /\ \/ \E st \in VerdictStatuses :
             LET r1 == [runs[i] EXCEPT !.status = st, !.attempt = 1,
                                       !.steps = Append(@, "verdict")]
             IN runs' = [runs EXCEPT ![i] =
                           IF SideEffectActivity(st) = None
                           THEN [r1 EXCEPT !.pc = "done", !.state = "completed"]
                           ELSE [r1 EXCEPT !.pc = "side_effect"]]
       \/ runs' = [runs EXCEPT ![i] = ActivityExhausted(@)]

\* the run's comment_and_reassign_activity attempt ended: returned or raised
AfterSideEffect(run, returned) ==
    IF returned
    THEN [run EXCEPT !.pc = "done", !.state = "completed",
                     !.steps = Append(@, "comment_and_reassign")]
    ELSE ActivityFailed(run)

CallOutcomes == {"ok", "JIRAError", "OtherError"}

\* 3. one attempt of comment_and_reassign_activity(ticket_key, verdict, reporter_id)
\*    posted: comments the attempt left, putDone: the assignee PUT was issued,
\*    put: its outcome, cerr: an add_comment call raised, returned: the
\*    activity returned instead of raising
SideEffectStep(i, posted, putDone, put, cerr, returned) ==
    LET run == runs[i]
        r1 == [run EXCEPT !.comments = @ + posted,
                          !.reassigns = @ + (IF putDone THEN 1 ELSE 0),
                          !.comment_error = cerr,
                          !.reassign_error = IF putDone /\ put # "ok" THEN put ELSE None]
    IN /\ runs' = [runs EXCEPT ![i] = AfterSideEffect(r1, returned)]
       /\ jira_assignee' = IF putDone /\ put = "ok"
                           THEN [jira_assignee EXCEPT ![run.key] = run.reporter]
                           ELSE jira_assignee

WfCommentAndReassign(i) ==
    /\ Executable(i)
    /\ runs[i].pc = "side_effect"
    /\ UNCHANGED <<now, genVars, dbVars, jira_updated, pollVars>>
    /\ IF runs[i].reporter = None
       THEN \* if not reporter_id: jira_service.add_comment(...)
            \E c1 \in CallOutcomes :
                SideEffectStep(i, IF c1 = "ok" THEN 1 ELSE 0, FALSE, "ok", c1 # "ok", c1 = "ok")
       ELSE \* try: jira_service.comment_and_reassign(...)
            \/ \* its add_comment raised something else than JIRAError
               SideEffectStep(i, 0, FALSE, "ok", TRUE, FALSE)
            \/ \* its add_comment returned, then the PUT returned or raised a
               \* requests/connection error, which no handler catches
               \E put \in {"ok", "OtherError"} :
                   SideEffectStep(i, 1, TRUE, put, FALSE, put = "ok")
            \/ \* JIRAError from its add_comment or from the PUT:
               \* except JIRAError: jira_service.add_comment(...)
               \E c1ok \in BOOLEAN, c2 \in CallOutcomes :
                   SideEffectStep(i, (IF c1ok THEN 1 ELSE 0) + (IF c2 = "ok" THEN 1 ELSE 0),
                                  c1ok, "JIRAError", (~c1ok) \/ c2 # "ok", c2 = "ok")

\* ---------------------------------- LLMService.get_validation_verdict
\* settings.LLM_FALLBACK_CHAIN
LLM_FALLBACK_CHAIN == <<"gemini-1.5-flash", "gemini-2.0-flash", "gemini-2.5-flash">>
max_retries == 3

\* what one pass through the try block ends with: the provider returned a
\* JSON object, or one of the statements raised.  JSONDecodeError stands for
\* every response json.loads or the item assignment rejects; Exception for
\* any other error of _get_client or _make_api_call.
ExceptionSubclasses ==
    {"ResourceExhausted", "AuthenticationError", "JSONDecodeError", "Exception"}
CallOutcomesLLM == {"json_object"} \cup ExceptionSubclasses

\* JSON objects a provider can answer with; nothing stops it from using the
\* values of the sentinel
ProviderJson ==
    {[module |-> m, validation_status |-> st, llm_provider_model |-> pm] :
        m \in {"AP.Invoice", "Unknown"}, st \in {"complete", "error"},
        pm \in {None, "all_failed"}}

Sentinel ==
    [module |-> "Unknown", validation_status |-> "error", llm_provider_model |-> "all_failed"]
NoLLMVerdict == [module |-> None, validation_status |-> None, llm_provider_model |-> None]

\* verdict['llm_provider_model'] = model_name
Stamp_unstamped(verdict, model_name) == verdict
Stamp(verdict, model_name) == [verdict EXCEPT !.llm_provider_model = model_name]

\* the except clause that handles an outcome, in the order the clauses are written
ExceptClause(o) ==
    CASE o = "ResourceExhausted" -> "rate_limit"
      [] o = "AuthenticationError" -> "auth"
      [] o \in ExceptionSubclasses -> "generic"
      [] OTHER -> "uncaught"

\* where the two loops stand after a handled failure of (model, attempt):
\* break leaves the retry loop, continue and falling through take the next
\* attempt while range(max_retries) has one
NextAttempt(clause, model, attempt) ==
    CASE clause = "rate_limit" ->
            IF attempt < max_retries - 1 THEN <<model, attempt + 1>> ELSE <<model + 1, 0>>
      [] clause = "auth" -> <<model + 1, 0>>
      [] OTHER ->
            IF attempt + 1 < max_retries THEN <<model, attempt + 1>> ELSE <<model + 1, 0>>

IdleLLM == [pc |-> "idle", model |-> 1, attempt |-> 0, calls |-> <<>>, verdict |-> NoLLMVerdict]

\* one pass of the inner loop body, up to the return, the break or the
\* continue; when the outer loop has no model left the function returns
\* the sentinel in the same step
LLMCall ==
    /\ llm.pc = "loop"
    /\ \E o \in CallOutcomesLLM, j \in ProviderJson :
          LET call == [model |-> llm.model, attempt |-> llm.attempt, outcome |-> o,
                       json |-> IF o = "json_object" THEN j ELSE NoLLMVerdict]
              calls1 == Append(llm.calls, call)
              clause == ExceptClause(o)
              nxt == NextAttempt(clause, llm.model, llm.attempt)
          IN  IF o = "json_object"
              THEN llm' = [llm EXCEPT !.pc = "returned", !.calls = calls1,
                                      !.verdict = Stamp(j, LLM_FALLBACK_CHAIN[llm.model])]
              ELSE /\ j = CHOOSE x \in ProviderJson : TRUE
                   /\ IF clause = "uncaught"
                      THEN llm' = [llm EXCEPT !.pc = "raised", !.calls = calls1]
                      ELSE IF nxt[1] > Len(LLM_FALLBACK_CHAIN)
                      THEN llm' = [llm EXCEPT !.pc = "returned", !.calls = calls1,
                                              !.model = nxt[1], !.attempt = nxt[2],
                                              !.verdict = Sentinel]
                      ELSE llm' = [llm EXCEPT !.calls = calls1,
                                              !.model = nxt[1], !.attempt = nxt[2]]
    /\ UNCHANGED <<now, genVars, runs, dbVars, jiraVars, pollVars, guard, prio, dedup, res, extVars>>

\* ------------------------------------------------- validate_solution
\* A text is a sequence of fragments; its value is their concatenation.
\* Line breaks and blanks are fragments of their own, so that splitting,
\* stripping and substring search act on them as they do on characters.
NL == "\n"
SP == " "
Phrase == "restart the service and retry"
GuardFragments == {NL, SP, "Drop", "TABLE", "TRUNCATE", "[INT:K1]", "[WEB:7]", Phrase}

\* constants.UNSAFE_COMMAND_PATTERNS, fragment by fragment
UNSAFE_COMMAND_PATTERNS ==
    << <<"DROP", SP, "TABLE">>, <<"DELETE", SP, "FROM">>, <<"TRUNCATE", SP>>,
       <<"SHUTDOWN", SP, "IMMEDIATE">>, <<"rm", SP, "-rf", SP, "/">>,
       <<"format", SP, "c:">>, <<"ALTER", SP, "SYSTEM">>, <<"GRANT", SP, "ALL">> >>

\* str.lower() on the fragments that have upper-case letters
LowerOf ==
    ("DROP" :> "drop") @@ ("Drop" :> "drop") @@ ("TABLE" :> "table") @@
    ("DELETE" :> "delete") @@ ("FROM" :> "from") @@ ("TRUNCATE" :> "truncate") @@
    ("SHUTDOWN" :> "shutdown") @@ ("IMMEDIATE" :> "immediate") @@
    ("ALTER" :> "alter") @@ ("SYSTEM" :> "system") @@ ("GRANT" :> "grant") @@
    ("ALL" :> "all") @@ ("[INT:K1]" :> "[int:k1]") @@ ("[WEB:7]" :> "[web:7]") @@
    ("Critical" :> "critical") @@ ("Slow" :> "slow") @@ ("ERROR" :> "error")
lower(t) == [i \in DOMAIN t |-> IF t[i] \in DOMAIN LowerOf THEN LowerOf[t[i]] ELSE t[i]]

\* needle in hay
Contains(hay, needle) ==
    \E i \in 0..(Len(hay) - Len(needle)) : SubSeq(hay, i + 1, i + Len(needle)) = needle

\* str.split('\n')
RECURSIVE SplitLines(_)
SplitLines(t) ==
    IF \A i \in DOMAIN t : t[i] # NL
    THEN <<t>>
    ELSE LET i == CHOOSE i \in DOMAIN t : t[i] = NL /\ \A j \in 1..(i - 1) : t[j] # NL
         IN  <<SubSeq(t, 1, i - 1)>> \o SplitLines(SubSeq(t, i + 1, Len(t)))

\* str.strip() of one line
RECURSIVE strip(_)
strip(p) ==
    IF p # <<>> /\ p[1] = SP THEN strip(Tail(p))
    ELSE IF p # <<>> /\ p[Len(p)] = SP THEN strip(SubSeq(p, 1, Len(p) - 1))
    ELSE p

\* '\n'.join(...)
RECURSIVE JoinLines(_)
JoinLines(ps) ==
    IF ps = <<>> THEN <<>>
    ELSE IF Len(ps) = 1 THEN ps[1]
    ELSE ps[1] \o <<NL>> \o JoinLines(Tail(ps))

\* len(para.split()): words are the maximal runs without a blank
RECURSIVE WordCount(_)
WordCount(p) ==
    IF p = <<>> THEN 0
    ELSE IF p[1] = SP THEN WordCount(Tail(p))
    ELSE (IF p[1] = Phrase THEN 4 ELSE 0)
         + (IF Len(p) > 1 /\ p[2] # SP THEN 0 ELSE 1)
         + WordCount(Tail(p))

\* the fragments a citation pattern matches, with the captured tag
CitationOf ==
    ("[INT:K1]" :> [kind |-> "INT", ref |-> "K1"]) @@
    ("[WEB:7]" :> [kind |-> "WEB", ref |-> "7"])
\* re.findall(r"\[(INT:[^\]]+|WEB:[^\]]+)\]", para)
RawCitations(para) ==
    LET cs == SelectSeq(para, LAMBDA f : f \in DOMAIN CitationOf)
    IN  [i \in DOMAIN cs |-> CitationOf[cs[i]]]
\* re.findall(r"\[(INT|WEB:[^\]]+)\]", para): "[INT:...]" does not match it
bracket_tokens(para) ==
    SelectSeq(RawCitations(para), LAMBDA c : c.kind = "WEB")

Issue(severity, message, raw, i) ==
    [severity |-> severity, message |-> message, raw |-> raw, paragraph_index |-> i]
NoRaw == [kind |-> None, ref |-> None]

unsafe_hits(para) ==
    SelectSeq(UNSAFE_COMMAND_PATTERNS, LAMBDA pat : Contains(lower(para), lower(pat)))

\* the issues the loop body appends for paragraph i (0-based), in order
RECURSIVE WhitelistIssues(_, _, _, _)
WhitelistIssues(raws, allowed_internal, allowed_external_indices, i) ==
    IF raws = <<>> THEN <<>>
    ELSE LET raw == raws[1]
             unknown == \/ raw.kind = "INT" /\ raw.ref \notin allowed_internal
                        \/ raw.kind = "WEB" /\ raw.ref \notin allowed_external_indices
             msg == IF raw.kind = "INT" THEN "Unknown internal citation"
                    ELSE "Unknown external citation"
         IN  (IF unknown THEN <<Issue("error", msg, raw, i)>> ELSE <<>>)
             \o WhitelistIssues(Tail(raws), allowed_internal, allowed_external_indices, i)

ParagraphIssues(para, allowed_internal, allowed_external_indices, i) ==
    IF para = <<>> THEN <<>>
    ELSE (IF bracket_tokens(para) = <<>> /\ WordCount(para) > 4
          THEN <<Issue("warning", "Paragraph lacks citations", NoRaw, i)>> ELSE <<>>)
         \o WhitelistIssues(RawCitations(para), allowed_internal, allowed_external_indices, i)
         \o (IF unsafe_hits(para) # <<>>
             THEN <<Issue("error", "Unsafe command pattern(s)", NoRaw, i)>> ELSE <<>>)

RECURSIVE AllIssues(_, _, _, _)
AllIssues(paragraphs, allowed_internal, allowed_external_indices, i) ==
    IF paragraphs = <<>> THEN <<>>
    ELSE ParagraphIssues(paragraphs[1], allowed_internal, allowed_external_indices, i)
         \o AllIssues(Tail(paragraphs), allowed_internal, allowed_external_indices, i + 1)

\* is_valid = not any(iss.severity == "error" for iss in issues)
IsValid_noIssue(issues) == issues = <<>>
IsValid(issues) == \A n \in DOMAIN issues : issues[n].severity # "error"

\* the paragraph is appended to cleaned_paragraphs
Kept(para) == para = <<>> \/ unsafe_hits(para) = <<>>

IdleGuard ==
    [pc |-> "idle", solution_text |-> <<>>, allowed_internal |-> {},
     allowed_external_indices |-> {}, cleaned_text |-> <<>>, issues |-> <<>>,
     is_valid |-> TRUE]

validate_solution ==
    /\ guard.pc = "called"
    /\ LET paragraphs == [n \in DOMAIN SplitLines(guard.solution_text) |->
                              strip(SplitLines(guard.solution_text)[n])]
           issues == AllIssues(paragraphs, guard.allowed_internal,
                               guard.allowed_external_indices, 0)
           cleaned_paragraphs == SelectSeq(paragraphs, Kept)
       IN  guard' = [guard EXCEPT !.pc = "returned",
                                  !.cleaned_text = JoinLines(cleaned_paragraphs),
                                  !.issues = issues,
                                  !.is_valid = IsValid(issues)]
    /\ UNCHANGED <<now, genVars, runs, dbVars, jiraVars, pollVars, llm, prio, dedup, res, extVars>>

\* ------------------------------------------------- classify_priority
P1_KEYWORDS ==
    << <<"production", SP, "down">>, <<"system", SP, "down">>, <<"cannot", SP, "login">>,
       <<"data", SP, "loss">>, <<"critical">>, <<"outage">> >>
P2_KEYWORDS ==
    << <<"slow">>, <<"performance">>, <<"failed">>, <<"error">>, <<"timeout">>, <<"degraded">> >>

PrioFragments == {SP, "Critical", "system", "down", "Slow", "ERROR", "404", "printer"}

\* number of leading digits of a fragment
LeadingDigits == ("404" :> 3)
\* re.search(r"error\s+\d{3,}", text)
NumericErrorCode(text) ==
    \E i \in DOMAIN text, j \in DOMAIN text :
        /\ text[i] = "error"
        /\ j > i + 1
        /\ \A n \in (i + 1)..(j - 1) : text[n] \in {SP, NL}
        /\ text[j] \in DOMAIN LeadingDigits
        /\ LeadingDigits[text[j]] >= 3

\* index of the first keyword of kws found in text, 0 when there is none
FirstKeyword(kws, text) ==
    IF \E n \in DOMAIN kws : Contains(text, kws[n])
    THEN CHOOSE n \in DOMAIN kws :
            /\ Contains(text, kws[n])
            /\ \A n2 \in 1..(n - 1) : ~Contains(text, kws[n2])
    ELSE 0

\* an optional string argument: None or a text
NoneText == [none |-> TRUE, text |-> <<>>]
SomeText(t) == [none |-> FALSE, text |-> t]
\* x or ''
OrEmpty(x) == IF x.none THEN <<>> ELSE x.text

\* f"{summary or ''}\n{description or ''}".lower()
PriorityText(summary, description) ==
    lower(OrEmpty(summary) \o <<NL>> \o OrEmpty(description))

classify_priority_p2First(summary, description) ==
    LET text == PriorityText(summary, description)
    IN  IF FirstKeyword(P2_KEYWORDS, text) # 0 THEN <<"P2", "Matched elevated keyword">>
        ELSE IF FirstKeyword(P1_KEYWORDS, text) # 0 THEN <<"P1", "Matched critical keyword">>
        ELSE <<"P3", "No priority keywords found">>
classify_priority(summary, description) ==
    LET text == PriorityText(summary, description)
    IN  IF FirstKeyword(P1_KEYWORDS, text) # 0 THEN <<"P1", "Matched critical keyword">>
        ELSE IF FirstKeyword(P2_KEYWORDS, text) # 0 THEN <<"P2", "Matched elevated keyword">>
        ELSE IF NumericErrorCode(text) THEN <<"P2", "Found numeric error code">>
        ELSE <<"P3", "No priority keywords found">>

IdlePrio == [pc |-> "idle", summary |-> NoneText, description |-> NoneText,
             priority |-> None, reason |-> None]

PrioCall ==
    /\ prio.pc = "called"
    /\ LET r == classify_priority(prio.summary, prio.description)
       IN  prio' = [prio EXCEPT !.pc = "returned", !.priority = r[1], !.reason = r[2]]
    /\ UNCHANGED <<now, genVars, runs, dbVars, jiraVars, pollVars, llm, guard, dedup, res, extVars>>

\* ----------------- find_potential_duplicate, get_llm_verdict_activity
\* L2 distances are in hundredths
DUPLICATE_THRESHOLD == 35
SolvedKeys == {"S1", "S2"}
DuplicateDistances == {0, 34, 35, 36}
\* a solved_jira_tickets row as the query sees it; the distance is NULL
\* when the row has no embedding
SolvedRows ==
    {[ticket_key |-> k, embedded |-> TRUE, distance |-> d] :
        k \in SolvedKeys, d \in DuplicateDistances}
    \cup {[ticket_key |-> k, embedded |-> FALSE, distance |-> 0] : k \in SolvedKeys}
NoRow == [ticket_key |-> None, embedded |-> FALSE, distance |-> 0]
\* the corpora: at most one row per ticket key
Corpora ==
    {c \in SUBSET SolvedRows : \A r1, r2 \in c : r1.ticket_key = r2.ticket_key => r1 = r2}

\* ORDER BY distance LIMIT 1, then .first(): NULL distances sort last,
\* ties come in any order
FirstRows(corpus) ==
    IF corpus = {} THEN {NoRow}
    ELSE {r \in corpus :
            \A r2 \in corpus :
                \/ ~r2.embedded
                \/ r.embedded /\ r.distance <= r2.distance}

\* if row and row.distance is not None and row.distance < threshold
find_potential_duplicate(row) ==
    IF row # NoRow /\ row.embedded /\ row.distance < DUPLICATE_THRESHOLD
    THEN row.ticket_key ELSE None

\* the "duplicate_of" key of the JSON object the provider answered with:
\* the prompt does not ask for one, nothing removes one
JsonDuplicateOf == {None, "S1", "OLD-404"}

IdleDedup ==
    [pc |-> "idle", corpus |-> {}, json_duplicate_of |-> None, row |-> NoRow,
     raised |-> FALSE, duplicate |-> None, duplicate_of |-> None]

\* get_llm_verdict_activity from the duplicate detection to the return
DuplicateDetection ==
    /\ dedup.pc = "called"
    /\ \/ \E row \in FirstRows(dedup.corpus) :
             LET duplicate == find_potential_duplicate(row)
             IN  dedup' = [dedup EXCEPT
                     !.pc = "returned", !.row = row, !.duplicate = duplicate,
                     !.duplicate_of = IF duplicate # None THEN duplicate
                                      ELSE dedup.json_duplicate_of]
       \/ \* the session, the embedding model or the query raises
          dedup' = [dedup EXCEPT !.pc = "returned", !.raised = TRUE,
                                 !.duplicate_of = dedup.json_duplicate_of]
    /\ UNCHANGED <<now, genVars, runs, dbVars, jiraVars, pollVars, llm, guard, prio, res, extVars>>

\* ------------------------- find_and_synthesize_solutions_activity
\* Distances are in hundredths; similarities and confidences before
\* rounding are in millionths; confidences after round(x, 4) are in
\* ten-thousandths.
RECURSIVE SeqSum(_)
SeqSum(q) == IF q = <<>> THEN 0 ELSE q[1] + SeqSum(Tail(q))
SeqMax(q) == CHOOSE x \in {q[i] : i \in DOMAIN q} : \A i \in DOMAIN q : q[i] <= x

\* find_similar_solutions(top_k=8, max_distance=1.0): rows farther than
\* max_distance are dropped
max_distance == 100
find_similar_solutions(rows) == SelectSeq(rows, LAMBDA d : ~(d > max_distance))

\* need_external; the rows come ordered by distance, so sorted(...)[0] and
\* [1] are the first two.  The gap test (D1 - D0) / (D0 + 1e-6) > 1.2 is
\* taken in millionths, cross-multiplied.
need_external_atLeast(internal_distances) ==
    \/ internal_distances = <<>>
    \/ internal_distances[1] >= 55
    \/ /\ Len(internal_distances) > 1
       /\ (internal_distances[2] - internal_distances[1]) * 10000 * 10
              > 12 * (internal_distances[1] * 10000 + 1)
need_external(internal_distances) ==
    \/ internal_distances = <<>>
    \/ internal_distances[1] > 55
    \/ /\ Len(internal_distances) > 1
       /\ (internal_distances[2] - internal_distances[1]) * 10000 * 10
              > 12 * (internal_distances[1] * 10000 + 1)

compute_confidence(distances, coverage_ratio, external_used) ==
    LET sims == [i \in DOMAIN distances |-> 100000000 \div (100 + distances[i])]
    IN  IF sims = <<>> THEN 150000
        ELSE LET top_sim == SeqMax(sims)
                 avg_sim == SeqSum(sims) \div Len(sims)
                 external_boost == IF external_used /\ top_sim < 450000 THEN 50000 ELSE 0
                 raw == (55 * top_sim + 30 * avg_sim + 10 * coverage_ratio) \div 100
                        + external_boost
             \* max(0.0, min(raw, 0.98))
             IN  IF raw > 980000 THEN 980000 ELSE IF raw < 0 THEN 0 ELSE raw

\* round(x, 4)
Round4(x) == (x + 50) \div 100

decay == <<100, 93, 87>>
\* the confidence of the alternative at 0-based rank i
LocalConfidence_noCap(base_conf, i, is_valid) ==
    Round4((base_conf * decay[IF i < Len(decay) THEN i + 1 ELSE Len(decay)]) \div 100)
LocalConfidence(base_conf, i, is_valid) ==
    LET local_conf == (base_conf * decay[IF i < Len(decay) THEN i + 1 ELSE Len(decay)]) \div 100
    IN  Round4(IF ~is_valid /\ local_conf > 550000 THEN 550000 ELSE local_conf)

\* any(sol.get('confidence', 0) < 0.2 for sol in solutions)
escalate_flag(solutions) == \E i \in DOMAIN solutions : solutions[i].confidence < 2000

\* what generate_solution_alternatives and validate_solution leave of one
\* alternative: the guardrail verdict, and whether the cleaned text is
\* empty or holds 'No alternatives generated.'
num_alternatives == 3
AlternativeLists ==
    UNION {[1..n -> [is_valid : BOOLEAN, blank : BOOLEAN]] : n \in 1..num_alternatives}

\* generate_solution_alternatives returns the 'LLM initialization failed.'
\* entry, the 'No alternatives generated.' entry, or the answers it got
Generations == {"init_failed", "placeholder", "results"}

IdleRes ==
    [pc |-> "idle", via |-> None, rows |-> <<>>, internal_distances |-> <<>>,
     searched |-> FALSE, external_outcome |-> None, external_sources |-> 0,
     path |-> None, solutions |-> <<>>, has_escalate |-> FALSE, escalate |-> FALSE,
     payload_escalate |-> FALSE, generation |-> None, alts |-> <<>>]

\* lines 62-121: retrieval, the external augmentation and the return taken
\* when there is no source at all
Retrieve ==
    /\ res.pc = "called"
    /\ LET similar_tickets == find_similar_solutions(res.rows)
           need == need_external(similar_tickets)
       IN  \E outcome \in {"raise", "empty", "sources"} :
              LET external_sources == IF need /\ outcome = "sources" THEN 1 ELSE 0
                  r1 == [res EXCEPT !.internal_distances = similar_tickets,
                                    !.searched = need,
                                    !.external_outcome = IF need THEN outcome ELSE None,
                                    !.external_sources = external_sources]
              IN  /\ ~need => outcome = "empty"
                  /\ IF similar_tickets = <<>> /\ external_sources = 0
                     THEN res' = [r1 EXCEPT
                              !.pc = "returned", !.path = "no_source",
                              !.solutions = <<[confidence |-> 0, guardrail_valid |-> TRUE,
                                               llm_provider_model |-> "no-context"]>>]
                     ELSE res' = [r1 EXCEPT !.pc = "sources"]
    /\ UNCHANGED <<now, genVars, runs, dbVars, jiraVars, pollVars, llm, guard, prio, dedup, extVars>>

\* lines 123-197: synthesis, confidence, guardrail, heuristic fallback,
\* escalation flag
Synthesize ==
    /\ res.pc = "sources"
    /\ \E generation \in Generations, alts \in AlternativeLists :
          LET base_conf == compute_confidence(res.internal_distances, 1000000,
                                              res.external_sources > 0)
              adjusted == [n \in DOMAIN alts |->
                              [confidence |-> LocalConfidence(base_conf, n - 1, alts[n].is_valid),
                               guardrail_valid |-> alts[n].is_valid,
                               llm_provider_model |-> IF generation = "init_failed"
                                                      THEN "init_failed"
                                                      ELSE LLM_FALLBACK_CHAIN[1]]]
              fallback == \A n \in DOMAIN alts : alts[n].blank
              solutions == IF fallback
                           THEN <<[confidence |-> Round4(base_conf \div 2),
                                   guardrail_valid |-> TRUE,
                                   llm_provider_model |-> "local-fallback"]>>
                           ELSE adjusted
          IN  /\ generation = "init_failed" => alts = <<[is_valid |-> TRUE, blank |-> FALSE]>>
              /\ generation = "placeholder" => alts = <<[is_valid |-> TRUE, blank |-> TRUE]>>
              /\ res' = [res EXCEPT !.pc = "returned",
                                 !.generation = generation, !.alts = alts,
                                 !.path = IF fallback THEN "heuristic" ELSE "normal",
                                 !.solutions = solutions,
                                 !.has_escalate = TRUE,
                                 !.escalate = escalate_flag(solutions)]
    /\ UNCHANGED <<now, genVars, runs, dbVars, jiraVars, pollVars, llm, guard, prio, dedup, extVars>>

\* routes.generate_solutions builds the payload from the result of the
\* workflow or of the in-process call: result.get("escalate", False)
Deliver ==
    /\ res.pc = "returned"
    /\ res' = [res EXCEPT !.pc = "delivered",
                          !.payload_escalate = IF res.has_escalate THEN res.escalate ELSE FALSE]
    /\ UNCHANGED <<now, genVars, runs, dbVars, jiraVars, pollVars, llm, guard, prio, dedup, extVars>>

\* ------------- activities.py: get_llm_verdict_activity, the returned verdict
\* verdict_dict as json.loads of the provider's answer left it: the keys the
\* object has, and their values (missing_fields by its length)
VerdictDicts ==
    {[keys |-> ks, validation_status |-> st, missing_fields |-> n] :
        ks \in SUBSET {"validation_status", "missing_fields"},
        st \in {"complete", "incomplete"}, n \in {0, 1}}

\* LLMVerdict(validation_status=verdict_dict.get("validation_status", "error"),
\*            missing_fields=verdict_dict.get("missing_fields", []), ...)
LLMVerdictOf(verdict_dict) ==
    Verdict(IF "validation_status" \in verdict_dict.keys
            THEN verdict_dict.validation_status ELSE "error",
            IF "missing_fields" \in verdict_dict.keys
            THEN verdict_dict.missing_fields ELSE 0,
            None)

\* ------------------- polling_service.py: the sleep between two iterations
interval_minutes == 5        \* PollingService.__init__
adaptive_min == 60
adaptive_max == 600

\* routes.py, get_incomplete_tickets: the interval shown as next_poll_time
AdaptiveInterval(incomplete_count, base) ==
    LET Max(a, b) == IF a >= b THEN a ELSE b
        interval == IF incomplete_count = 0 THEN base
                    ELSE IF incomplete_count < 5 THEN Max((base * 6) \div 10, adaptive_min)
                    ELSE IF incomplete_count < 15 THEN Max((base * 4) \div 10, adaptive_min)
                    ELSE adaptive_min
    IN  IF interval <= adaptive_max THEN interval ELSE adaptive_max

\* start_polling, lines 161-164: next_poll_time = self.interval_minutes * 60
next_poll_time == interval_minutes * 60

\* SELECT COUNT(*) FROM validations_log WHERE status='incomplete'; other:
\* the incomplete rows of tickets outside Keys
count_incomplete(other) ==
    other + Cardinality({row \in validations_log : row.status = "incomplete"})

\* regular: the iteration ended at line 164, not in the 60 s recovery sleep
IdleNap == [other_incomplete |-> 0, regular |-> FALSE, seconds |-> 0, incomplete_count |-> 0]

\* the sleep the iteration ends with, once nothing is left to dispatch
Sleep(reset) ==
    LET c == count_incomplete(nap.other_incomplete)
    IN  nap' = IF poll_pc' = "sleep"
               THEN [nap EXCEPT !.regular = ~reset, !.incomplete_count = c,
                                !.seconds = IF reset THEN 60 ELSE next_poll_time]
               ELSE nap

\* ------------------------ compliance_filter.py and the provider calls
REDACTION_TOKEN == "[REDACTED]"
ScrubFragments ==
    {SP, "Invoice", "jane.doe@example.com", "sk-live12345678",
     "9f86d081884c7d659a2feaa0c55ad015", "eyJhbGci.eyJzdWIi.SflKxwRJ"}

\* PATTERNS = [EMAIL_RE, API_KEY_RE, HEX_LONG_RE, BASE64ISH_RE, JWT_RE], each
\* by the fragments it matches
PATTERNS ==
    << {"jane.doe@example.com"}, {"sk-live12345678"},
       {"9f86d081884c7d659a2feaa0c55ad015"}, {},
       {"eyJhbGci.eyJzdWIi.SflKxwRJ"} >>

\* for pat in PATTERNS: text = pat.sub(_sub, text); returns <<text, redactions>>
RECURSIVE scrub_from(_, _, _)
scrub_from(text, redactions, n) ==
    IF n > Len(PATTERNS) THEN <<text, redactions>>
    ELSE scrub_from([i \in DOMAIN text |->
                        IF text[i] \in PATTERNS[n] THEN REDACTION_TOKEN ELSE text[i]],
                    redactions + Cardinality({i \in DOMAIN text : text[i] \in PATTERNS[n]}),
                    n + 1)
scrub(text) == scrub_from(text, 0, 1)

IdleProv == [pc |-> "idle", bundled_text |-> <<>>, path |-> None, provider_text |-> <<>>,
             redactions |-> 0]

\* get_llm_verdict_activity, lines 58-66: the scrubbed text goes to
\* get_validation_verdict
ValidationProviderCall ==
    /\ prov.pc = "called"
    /\ prov' = [prov EXCEPT !.pc = "sent", !.path = "validation",
                            !.provider_text = scrub(prov.bundled_text)[1],
                            !.redactions = scrub(prov.bundled_text)[2]]
    /\ UNCHANGED <<baseVars, pub, nap, schema, ws, hook, clus, docs>>

\* find_and_synthesize_solutions_activity, lines 131-136, run by the
\* workflow or in process with ResolutionInput(ticket_key, bundled_text):
\* generate_solution_alternatives(ticket_context=data.ticket_bundled_text)
SynthesisProviderCall ==
    /\ prov.pc = "called"
    /\ \E via \in {"workflow", "in_process"} :
          prov' = [prov EXCEPT !.pc = "sent", !.path = via,
                               !.provider_text = prov.bundled_text]
    /\ UNCHANGED <<baseVars, pub, nap, schema, ws, hook, clus, docs>>

\* ----------------------- db_service.py: _ensure_schema_extensions
MaxStartups == 2
NULL == "NULL"
AbsentTable == [exists |-> FALSE, columns |-> {}, rows |-> {}]
TableNames == {"validations_log", "resolution_drafts", "ticket_events"}

\* SELECT 1 FROM information_schema.columns WHERE table_name=t AND column_name=c
has_column(db, t, c) == db[t].exists /\ c \in db[t].columns

\* ALTER TABLE t ADD COLUMN c: existing rows get NULL in the new column; on
\* a missing table or an existing column the statement raises and the
\* except clause prints
AddColumn(db, t, c) ==
    IF db[t].exists /\ c \notin db[t].columns
    THEN [db EXCEPT ![t].columns = @ \cup {c},
                    ![t].rows = {r @@ (c :> NULL) : r \in @}]
    ELSE db

\* DROP TABLE t; CREATE TABLE t (...)
CreateTableIfNotExists_recreate(db, t, columns) ==
    [db EXCEPT ![t] = [exists |-> TRUE, columns |-> columns, rows |-> {}]]

\* CREATE TABLE IF NOT EXISTS t (...)
CreateTableIfNotExists(db, t, columns) ==
    IF db[t].exists THEN db
    ELSE [db EXCEPT ![t] = [exists |-> TRUE, columns |-> columns, rows |-> {}]]

\* autocommit: the connection commits each DDL statement (SQLAlchemy 1.x);
\* otherwise nothing is committed and the close rolls the statements back
_ensure_schema_extensions(db, autocommit) ==
    LET db1 == IF ~has_column(db, "validations_log", "priority")
               THEN AddColumn(db, "validations_log", "priority") ELSE db
        db2 == IF ~has_column(db1, "validations_log", "duplicate_of")
               THEN AddColumn(db1, "validations_log", "duplicate_of") ELSE db1
        db3 == CreateTableIfNotExists(db2, "resolution_drafts",
                   {"id", "ticket_key", "draft_text", "author", "created_at", "updated_at"})
        db4 == CreateTableIfNotExists(db3, "ticket_events",
                   {"id", "ticket_key", "event_type", "message", "created_at"})
    IN  IF autocommit THEN db4 ELSE db

IdleSchema ==
    [startups |-> 0, autocommit |-> FALSE,
     start |-> [t \in TableNames |-> AbsentTable],
     once |-> [t \in TableNames |-> AbsentTable],
     db |-> [t \in TableNames |-> AbsentTable]]

\* DatabaseService.__init__ at a process start: one run of the function
Startup ==
    /\ schema.startups < MaxStartups
    /\ LET db == _ensure_schema_extensions(schema.db, schema.autocommit)
       IN  schema' = [schema EXCEPT !.startups = @ + 1, !.db = db,
                                    !.once = IF schema.startups = 0 THEN db ELSE @]
    /\ UNCHANGED <<baseVars, pub, nap, prov, ws, hook, clus, docs>>

\* ------------------------------ web_search_service.py: search, _audit
MaxRaw == 2
SearchFragments == {NL, SP, "ORA-01555", "timeout"}

\* lines = [l.strip() for l in ticket_text.splitlines() if l.strip()]
NonBlankLines(ticket_text) ==
    SelectSeq([i \in DOMAIN SplitLines(ticket_text) |-> strip(SplitLines(ticket_text)[i])],
              LAMBDA l : l # <<>>)

\* _audit: one INSERT into external_search_audit, or the except clause
\* prints and nothing is written
_audit(audit, provider, count, inserted) ==
    IF inserted THEN Append(audit, [provider_used |-> provider, result_count |-> count])
    ELSE audit

IdleWs ==
    [pc |-> "idle", enabled |-> TRUE, provider |-> "heuristic", ticket_text |-> <<>>,
     max_results |-> 0, provider_outcome |-> None, audit_failed |-> FALSE,
     audit |-> <<>>, served_by |-> None, results |-> 0]

\* search(ticket_text, max_results); raw: the "results" list of the
\* provider's answer, by its length
search ==
    /\ ws.pc = "called"
    /\ IF ~ws.enabled
       THEN ws' = [ws EXCEPT !.pc = "returned", !.served_by = "disabled"]
       ELSE \E failed \in BOOLEAN, raw \in 0..MaxRaw, ins1 \in BOOLEAN, ins2 \in BOOLEAN :
               LET Min(a, b) == IF a <= b THEN a ELSE b
                   tavily == ws.provider = "tavily"
                   answered == tavily /\ ~failed
                   shaped == Min(raw, ws.max_results)
                   audit1 == IF answered
                             THEN _audit(ws.audit, ws.provider, shaped, ins1)
                             ELSE ws.audit
                   faux == Min(Len(NonBlankLines(ws.ticket_text)), ws.max_results)
               IN  /\ ~tavily => (~failed /\ raw = 0 /\ ins1)
                   /\ (tavily /\ failed) => (raw = 0 /\ ins1)
                   /\ IF answered /\ shaped > 0
                      THEN /\ ins2
                           /\ ws' = [ws EXCEPT
                                       !.pc = "returned", !.provider_outcome = "results",
                                       !.audit = audit1, !.audit_failed = ~ins1,
                                       !.served_by = "tavily", !.results = shaped]
                      ELSE ws' = [ws EXCEPT
                                    !.pc = "returned",
                                    !.provider_outcome =
                                        IF ~tavily THEN None
                                        ELSE IF failed THEN "failure" ELSE "no_results",
                                    !.audit = _audit(audit1, "heuristic", faux, ins2),
                                    !.audit_failed = (answered /\ ~ins1) \/ ~ins2,
                                    !.served_by = "heuristic", !.results = faux]
    /\ UNCHANGED <<baseVars, pub, nap, prov, schema, hook, clus, docs>>

\* ------------------------- routes.py: handle_jira_webhook, the response
\* run: the index in runs of the execution the request started (0: none)
IdleHook == [webhook_event |-> None, key |-> None, outcome |-> None, run |-> 0,
             status_code |-> 0]

\* an exception that leaves the handler becomes a 500
WebhookStatus_uncaught(outcome) == IF outcome = "raised" THEN 500 ELSE 200

\* status_code=status.HTTP_200_OK: every path ends in return {"status": "received"}
WebhookStatus(outcome) == 200

\* one request: the handler, and what the caller and the engine saw of it
WebhookCall(k, ev) ==
    /\ handle_jira_webhook(k, ev)
    /\ LET outcome == IF runs' # runs THEN "started"
                      ELSE IF ev \in {"jira:issue_created", "jira:issue_updated"}
                           THEN "raised" ELSE "ignored"
       IN  hook' = [webhook_event |-> ev, key |-> k, outcome |-> outcome,
                    run |-> IF outcome = "started" THEN Len(runs') ELSE 0,
                    status_code |-> WebhookStatus(outcome)]
    /\ UNCHANGED <<llm, guard, prio, dedup, res, pub, nap, prov, schema, ws, clus, docs>>

\* ------------- resolution_activities.py: cluster_embeddings

\* how many embeddings one call clusters, and the largest coordinate of one
MaxEmbeddings == 3
MaxCoord == 2

\* embeddings are vectors of two whole coordinates
Vectors == [1..2 -> 0..MaxCoord]

\* similarity_threshold = 0.90, in hundredths
similarity_threshold == 90

Dot(a, b) == a[1] * b[1] + a[2] * b[2]

\* _cosine(a, b) >= threshold, with threshold in hundredths:
\* dot / (|a| * |b| + 1e-10) >= threshold / 100. A zero vector gives 0 / 1e-10 = 0;
\* otherwise both sides are squared, and the 1e-10 in the divisor makes the
\* comparison strict where dot * 100 = threshold * |a| * |b|
CosineAtLeast(a, b, threshold) ==
    /\ Dot(a, b) > 0
    /\ 10000 * Dot(a, b) * Dot(a, b) > threshold * threshold * Dot(a, a) * Dot(b, b)

\* rep_idx = cluster[0], read through the last member instead
Representative_last(cluster) == cluster[Len(cluster)]

\* rep_idx = cluster[0]
Representative(cluster) == cluster[1]

\* the loop body for embeddings[idx] (idx counts from 0 as in the source):
\* append idx to the first cluster whose representative is similar enough,
\* else open a new cluster
RECURSIVE cluster_from(_, _, _, _)
cluster_from(embeddings, idx, clusters, threshold) ==
    IF idx >= Len(embeddings) THEN clusters
    ELSE LET emb == embeddings[idx + 1]
             hits == {n \in DOMAIN clusters :
                         CosineAtLeast(embeddings[Representative(clusters[n]) + 1], emb, threshold)}
             first == CHOOSE n \in hits : \A m \in hits : n <= m
         IN  cluster_from(embeddings, idx + 1,
                          IF hits # {}
                          THEN [clusters EXCEPT ![first] = Append(@, idx)]
                          ELSE Append(clusters, <<idx>>),
                          threshold)

cluster_embeddings(embeddings, threshold) ==
    LET clusters == cluster_from(embeddings, 0, <<>>, threshold)
    IN  [n \in DOMAIN clusters |-> Representative(clusters[n])]

IdleClus == [pc |-> "idle", embeddings |-> <<>>, representatives |-> <<>>]

\* one call cluster_embeddings(items, embeddings) with the default threshold
Cluster ==
    /\ clus.pc = "called"
    /\ clus' = [clus EXCEPT !.pc = "returned",
                            !.representatives =
                                cluster_embeddings(clus.embeddings, similarity_threshold)]
    /\ UNCHANGED <<baseVars, pub, nap, prov, schema, ws, hook, docs>>

\* ------------- external_ingest_service.py: ExternalIngestService

DEFAULT_TTL_DAYS == 7

\* the clock of the table counts days, up to MaxDay; one call ingests up to
\* MaxResults results
MaxDay == 2
MaxResults == 2

Urls == {"https://a/1", "https://b/2"}
Titles == {"t1", "t2"}
Contents == {"c1", "c2"}

\* hashlib.sha256(content_text.encode()).hexdigest(): one digest per content
sha256(content_text) == <<"sha256", content_text>>

\* rag_service.embedding_model.encode(content_text)
encode(content_text) == <<"embedding", content_text>>

\* rows: the rows of external_docs in insertion order; fetched_at is the
\* column's server default, set when the row is inserted
IdleDocs == [day |-> 0, rows |-> <<>>]

\* _upsert_doc(url, title, content_text) on the rows, at day now
_upsert_doc(rows, url, title, content_text, day) ==
    LET content_hash == sha256(content_text)
        expires_at == day + DEFAULT_TTL_DAYS
        found == {n \in DOMAIN rows : rows[n].url = url}
    IN  IF found # {}
        THEN LET n == CHOOSE m \in found : TRUE
             IN  IF rows[n].content_hash # content_hash
                 THEN [rows EXCEPT ![n].content_text = content_text,
                                   ![n].content_hash = content_hash,
                                   ![n].title = title,
                                   ![n].expires_at = expires_at,
                                   ![n].embedding = encode(content_text)]
                 ELSE rows
        ELSE Append(rows, [url |-> url, title |-> title, content_text |-> content_text,
                           content_hash |-> content_hash, embedding |-> encode(content_text),
                           fetched_at |-> day, expires_at |-> expires_at])

RECURSIVE ingest_from(_, _, _, _)
ingest_from(rows, raw_results, n, day) ==
    IF n > Len(raw_results) THEN rows
    ELSE ingest_from(_upsert_doc(rows, raw_results[n].url, raw_results[n].title,
                                 raw_results[n].content_text, day),
                     raw_results, n + 1, day)

\* ingest_results(raw_results); content_text of a result is the first of
\* full_content, snippet, title that is not empty
ingest_results ==
    \E n \in 1..MaxResults :
        \E raw_results \in [1..n -> [url : Urls, title : Titles, content_text : Contents]] :
            /\ docs' = [docs EXCEPT !.rows = ingest_from(docs.rows, raw_results, 1, docs.day)]
            /\ UNCHANGED <<baseVars, pub, nap, prov, schema, ws, hook, clus>>

\* a day passes between two calls
DayPasses ==
    /\ docs.day < MaxDay
    /\ docs' = [docs EXCEPT !.day = @ + 1]
    /\ UNCHANGED <<baseVars, pub, nap, prov, schema, ws, hook, clus>>

\* ------------- routes.py: post_solution; find_resolution.py: PostResolution
POST_MAXIMUM_ATTEMPTS == 2   \* RetryPolicy(maximum_attempts=2)
MaxPublishes == 2

\* comments: add_comment calls of the run that reached the ticket platform;
\* post_raised / write_raised: add_comment / log_resolution raised in the
\* run; orphan_run: a workflow run was started before the handler fell back
IdlePub ==
    [pc |-> "idle", via |-> None, ticket_key |-> None, state |-> None, attempt |-> 0,
     comments |-> 0, post_raised |-> FALSE, write_raised |-> FALSE,
     orphan_run |-> FALSE, resp |-> None, publishes |-> 0, resolution_log |-> <<>>]

\* POST /post-solution/{ticket_key}: Client.connect, start_workflow and
\* add_event return, or one of them raises and the except branch runs the
\* two activities in process. The handler reads no ValidationRecord.
post_solution(k) ==
    /\ pub.pc \in {"idle", "done"}
    /\ pub.publishes < MaxPublishes
    /\ \E cause \in {None, "connect", "start_workflow", "add_event"} :
          pub' = [pub EXCEPT
                    !.pc = "post", !.ticket_key = k, !.state = "running", !.attempt = 1,
                    !.via = IF cause = None THEN "workflow" ELSE "in_process",
                    !.comments = 0, !.post_raised = FALSE, !.write_raised = FALSE,
                    !.orphan_run = (cause = "add_event"),
                    !.resp = IF cause = None THEN "success" ELSE None,
                    !.publishes = @ + 1]
    /\ UNCHANGED <<baseVars, nap, prov, schema, ws, hook, clus, docs>>

\* an activity attempt of a workflow run that the engine counts as failed
\* (start_to_close_timeout, worker lost): retried up to maximum_attempts,
\* then the ActivityError fails the workflow
PubAttemptFailed(p) ==
    IF p.attempt < POST_MAXIMUM_ATTEMPTS
    THEN [p EXCEPT !.attempt = @ + 1]
    ELSE [p EXCEPT !.pc = "done", !.state = "failed"]

\* one attempt of post_solution_to_jira_activity: add_comment returns, or
\* raises and the except clause returns the error message
post_solution_to_jira_activity ==
    /\ pub.pc = "post"
    /\ \/ pub' = [pub EXCEPT !.pc = "log", !.attempt = 1, !.comments = @ + 1]
       \/ pub' = [pub EXCEPT !.pc = "log", !.attempt = 1, !.post_raised = TRUE]
       \/ /\ pub.via = "workflow"
          /\ \E posted \in {0, 1} :
                pub' = PubAttemptFailed([pub EXCEPT !.comments = @ + posted])
    /\ UNCHANGED <<baseVars, nap, prov, schema, ws, hook, clus, docs>>

\* one attempt of log_resolution_activity: log_resolution commits the row,
\* or raises and the except clause returns the error message. In process
\* the handler then writes the timeline event and answers.
log_resolution_activity ==
    /\ pub.pc = "log"
    /\ \/ \E written \in BOOLEAN, event_ok \in BOOLEAN :
             pub' = [pub EXCEPT
                       !.pc = "done", !.state = "completed",
                       !.write_raised = ~written,
                       !.resolution_log =
                           IF written
                           THEN Append(@, [ticket_key |-> pub.ticket_key,
                                           validation_status |-> StatusOf(pub.ticket_key),
                                           comments |-> pub.comments,
                                           post_raised |-> pub.post_raised])
                           ELSE @,
                       !.resp = IF pub.via = "workflow" THEN @
                                ELSE IF event_ok THEN "success_fallback" ELSE "500_both"]
       \/ /\ pub.via = "workflow"
          /\ pub' = PubAttemptFailed(pub)
    /\ UNCHANGED <<baseVars, nap, prov, schema, ws, hook, clus, docs>>

ExtInit ==
    /\ nap = IdleNap
    /\ pub = IdlePub
    /\ docs = IdleDocs
    /\ clus = IdleClus
    /\ hook = IdleHook
    /\ ws = IdleWs
    /\ schema = IdleSchema
    /\ prov = IdleProv

SvcInit ==
    /\ llm = IdleLLM
    /\ guard = IdleGuard
    /\ prio = IdlePrio
    /\ dedup = IdleDedup
    /\ res = IdleRes
    /\ ExtInit

\* ---------------------------------------------------------- specification
CoreInit ==
    /\ now = 1
    /\ _last_generation = [k \in Keys |-> 0]
    /\ _inflight = {}
    /\ _active_sessions = [k \in Keys |-> 0]
    /\ _session_solution_cache = [k \in Keys |-> None]
    /\ req = [r \in Reqs |-> IdleReq]
    /\ runs = <<>>
    /\ validations_log = {}
    /\ ticket_events = [k \in Keys |-> [t \in EventTypes |-> 0]]
    /\ last_applied = [k \in Keys |-> NoVerdict]
    /\ jira_updated = [k \in Keys |-> 1]
    /\ jira_assignee = [k \in Keys |-> None]
    /\ temporal_client = FALSE
    /\ poll_pc = "sleep"
    /\ known_statuses = [k \in Keys |-> None]
    /\ check_errors = {}
    /\ tickets_to_process = <<>>

Init == CoreInit /\ SvcInit

\* validation side: ingress, engine and worker
Next ==
    \/ PollCycle /\ UNCHANGED svcVars
    \/ trigger_workflow /\ UNCHANGED svcVars
    \/ \E k \in Keys, ev \in WebhookEvents : handle_jira_webhook(k, ev) /\ UNCHANGED svcVars
    \/ \E k \in Keys : trigger_validation(k) /\ UNCHANGED svcVars
    \/ \E i \in 1..MaxRuns : WfFetch(i) /\ UNCHANGED svcVars
    \/ \E i \in 1..MaxRuns : WfVerdict(i) /\ UNCHANGED svcVars
    \/ \E i \in 1..MaxRuns : WfCommentAndReassign(i) /\ UNCHANGED svcVars

Spec == Init /\ [][Next]_vars

\* worker.run() keeps polling its task queue: a workflow step that stays
\* executable is executed
WorkerStep(i) == WfFetch(i) \/ WfVerdict(i) \/ WfCommentAndReassign(i)

SpecFair == Spec /\ \A i \in 1..MaxRuns : WF_vars(WorkerStep(i) /\ UNCHANGED svcVars)

\* validation log and change detection: persistence, ticket edits, poller
TickVal == Tick(25) /\ UNCHANGED <<genVars, runs, dbVars, jiraVars, pollVars>>

NextPoll ==
    \/ TickVal /\ UNCHANGED svcVars
    \/ \E k \in Keys, v \in Verdicts : log_validation_result_activity(k, v) /\ UNCHANGED svcVars
    \/ \E k \in Keys : UserEdit(k) /\ UNCHANGED svcVars
    \/ PollCycle /\ UNCHANGED svcVars
    \/ trigger_workflow /\ UNCHANGED svcVars

SpecPoll == Init /\ [][NextPoll]_vars

\* ingress against a stored validations log: every way a ValidateTicket
\* execution gets started, with verdicts being logged in between
NextIngress ==
    \/ \E k \in Keys, v \in Verdicts : log_validation_result_activity(k, v) /\ UNCHANGED svcVars
    \/ PollCycle /\ UNCHANGED svcVars
    \/ trigger_workflow /\ UNCHANGED svcVars
    \/ \E k \in Keys, ev \in WebhookEvents : handle_jira_webhook(k, ev) /\ UNCHANGED svcVars
    \/ \E k \in Keys : trigger_validation(k) /\ UNCHANGED svcVars

SpecIngress == Init /\ [][NextIngress]_vars

\* resolution side: generate-solutions requests against a stored validations log
DuplicateVerdict == Verdict("complete", 0, "S1")

\* the requests meet a validations log in which K1 has no record or one
\* that names a solved ticket in duplicate_of
InitGen ==
    /\ now = 1
    /\ _last_generation = [k \in Keys |-> 0]
    /\ _inflight = {}
    /\ _active_sessions = [k \in Keys |-> 0]
    /\ _session_solution_cache = [k \in Keys |-> None]
    /\ req = [r \in Reqs |-> IdleReq]
    /\ runs = <<>>
    /\ \/ /\ validations_log = {}
          /\ last_applied = [k \in Keys |-> NoVerdict]
       \/ /\ validations_log = Upsert({}, "K1", DuplicateVerdict, 1)
          /\ last_applied = [k \in Keys |-> IF k = "K1" THEN DuplicateVerdict ELSE NoVerdict]
    /\ ticket_events = [k \in Keys |-> [t \in EventTypes |-> 0]]
    /\ jira_updated = [k \in Keys |-> 1]
    /\ jira_assignee = [k \in Keys |-> None]
    /\ temporal_client = FALSE
    /\ poll_pc = "sleep"
    /\ known_statuses = [k \in Keys |-> None]
    /\ check_errors = {}
    /\ tickets_to_process = <<>>
    /\ SvcInit

TickGen == \E d \in {24, 25} : Tick(d) /\ UNCHANGED <<genVars, runs, dbVars, jiraVars, pollVars>>

NextGen ==
    \/ TickGen /\ UNCHANGED svcVars
    \/ \E r \in Reqs, k \in Keys :
          GenArrive(r, k) /\ UNCHANGED <<validations_log, last_applied, jiraVars, pollVars, svcVars>>
    \/ \E r \in Reqs :
          GenConnect(r) /\ UNCHANGED <<validations_log, last_applied, jiraVars, pollVars, svcVars>>
    \/ \E r \in Reqs :
          GenStart(r) /\ UNCHANGED <<validations_log, last_applied, jiraVars, pollVars, svcVars>>
    \/ \E r \in Reqs :
          GenResult(r) /\ UNCHANGED <<validations_log, last_applied, jiraVars, pollVars, svcVars>>
    \/ \E r \in Reqs :
          GenReturn(r) /\ UNCHANGED <<validations_log, last_applied, jiraVars, pollVars, svcVars>>

SpecGen == InitGen /\ [][NextGen]_vars

\* one call of get_validation_verdict against providers that answer or fail
InitLLM ==
    /\ CoreInit
    /\ ExtInit
    /\ llm = [IdleLLM EXCEPT !.pc = "loop"]
    /\ guard = IdleGuard
    /\ prio = IdlePrio
    /\ dedup = IdleDedup
    /\ res = IdleRes

SpecLLM == InitLLM /\ [][LLMCall]_vars

\* validate_solution on every text of up to MaxTextLen fragments
MaxTextLen == 5
RECURSIVE Texts(_, _)
Texts(fragments, n) ==
    IF n = 0 THEN {<<>>}
    ELSE LET shorter == Texts(fragments, n - 1)
         IN  shorter \cup {Append(t, f) : t \in shorter, f \in fragments}

InitGuard ==
    /\ CoreInit
    /\ ExtInit
    /\ llm = IdleLLM
    /\ \E t \in Texts(GuardFragments, MaxTextLen), ai \in SUBSET {"K1"}, ae \in SUBSET {"7"} :
          guard = [IdleGuard EXCEPT !.pc = "called", !.solution_text = t,
                                    !.allowed_internal = ai,
                                    !.allowed_external_indices = ae]
    /\ prio = IdlePrio
    /\ dedup = IdleDedup
    /\ res = IdleRes

SpecGuard == InitGuard /\ [][validate_solution]_vars

\* classify_priority on every summary and description within the bounds
MaxSummaryLen == 3
MaxDescriptionLen == 1

InitPrio ==
    /\ CoreInit
    /\ ExtInit
    /\ llm = IdleLLM
    /\ guard = IdleGuard
    /\ \E su \in {SomeText(t) : t \in Texts(PrioFragments, MaxSummaryLen)} \cup {NoneText},
          de \in {SomeText(t) : t \in Texts(PrioFragments, MaxDescriptionLen)} \cup {NoneText} :
          prio = [IdlePrio EXCEPT !.pc = "called", !.summary = su, !.description = de]
    /\ dedup = IdleDedup
    /\ res = IdleRes

SpecPrio == InitPrio /\ [][PrioCall]_vars

\* duplicate detection against every corpus of solved tickets
InitDedup ==
    /\ CoreInit
    /\ ExtInit
    /\ llm = IdleLLM
    /\ guard = IdleGuard
    /\ prio = IdlePrio
    /\ \E c \in Corpora, j \in JsonDuplicateOf :
          dedup = [IdleDedup EXCEPT !.pc = "called", !.corpus = c, !.json_duplicate_of = j]
    /\ res = IdleRes

SpecDedup == InitDedup /\ [][DuplicateDetection]_vars

\* the resolution pipeline on every list of up to MaxInternal nearest rows
MaxInternal == 2
RowDistances == {0, 10, 25, 55, 56, 100, 130}
OrderedRows ==
    {q \in UNION {[1..n -> RowDistances] : n \in 0..MaxInternal} :
        \A i \in DOMAIN q : i > 1 => q[i - 1] <= q[i]}

InitRes ==
    /\ CoreInit
    /\ ExtInit
    /\ llm = IdleLLM
    /\ guard = IdleGuard
    /\ prio = IdlePrio
    /\ dedup = IdleDedup
    /\ \E q \in OrderedRows, via \in {"workflow", "in_process"} :
          res = [IdleRes EXCEPT !.pc = "called", !.via = via, !.rows = q]

NextRes ==
    \/ Retrieve
    \/ Synthesize
    \/ Deliver

SpecRes == InitRes /\ [][NextRes]_vars

\* the publish path next to the validation side that writes validations_log
NextPub ==
    \/ \E k \in Keys, v \in Verdicts : log_validation_result_activity(k, v) /\ UNCHANGED svcVars
    \/ \E k \in Keys : post_solution(k)
    \/ post_solution_to_jira_activity
    \/ log_resolution_activity

SpecPub == Init /\ [][NextPub]_vars


\* the verdict of get_llm_verdict_activity handed to log_validation_result_activity
LogVerdict ==
    \E k \in Keys, verdict_dict \in VerdictDicts :
        log_validation_result_activity(k, LLMVerdictOf(verdict_dict)) /\ UNCHANGED svcVars

SpecVerdict == Init /\ [][LogVerdict]_vars

\* the polling loop with its sleeps, over databases with up to
\* MaxOtherIncomplete incomplete rows of other tickets
MaxOtherIncomplete == 13
OtherIncomplete == {n \in {0, 3, 13, 14} : n <= MaxOtherIncomplete}

InitNap ==
    /\ CoreInit
    /\ llm = IdleLLM
    /\ guard = IdleGuard
    /\ prio = IdlePrio
    /\ dedup = IdleDedup
    /\ res = IdleRes
    /\ pub = IdlePub
    /\ docs = IdleDocs
    /\ clus = IdleClus
    /\ hook = IdleHook
    /\ ws = IdleWs
    /\ schema = IdleSchema
    /\ prov = IdleProv
    /\ \E n \in OtherIncomplete : nap = [IdleNap EXCEPT !.other_incomplete = n]

NextNap ==
    \/ \E k \in Keys, v \in Verdicts : log_validation_result_activity(k, v) /\ UNCHANGED svcVars
    \/ PollCycle /\ Sleep(~temporal_client') /\ UNCHANGED <<llm, guard, prio, dedup, res, pub, prov, schema, ws, hook, clus, docs>>
    \/ trigger_workflow /\ Sleep(FALSE) /\ UNCHANGED <<llm, guard, prio, dedup, res, pub, prov, schema, ws, hook, clus, docs>>

SpecNap == InitNap /\ [][NextNap]_vars

\* provider calls on every ticket text of up to MaxBundleLen fragments
MaxBundleLen == 3

InitProv ==
    /\ CoreInit
    /\ llm = IdleLLM
    /\ guard = IdleGuard
    /\ prio = IdlePrio
    /\ dedup = IdleDedup
    /\ res = IdleRes
    /\ pub = IdlePub
    /\ docs = IdleDocs
    /\ clus = IdleClus
    /\ hook = IdleHook
    /\ ws = IdleWs
    /\ schema = IdleSchema
    /\ nap = IdleNap
    /\ \E t \in Texts(ScrubFragments, MaxBundleLen) :
          prov = [IdleProv EXCEPT !.pc = "called", !.bundled_text = t]

NextProv ==
    \/ ValidationProviderCall
    \/ SynthesisProviderCall

SpecProv == InitProv /\ [][NextProv]_vars

\* startups from every starting schema: validations_log absent or with any
\* of the two columns, the other tables absent or present, each holding no
\* row or one
StartTables(columns) ==
    {AbsentTable} \cup
    {[exists |-> TRUE, columns |-> cs, rows |-> rs] :
        cs \in {columns}, rs \in {{}, {[c \in columns |-> "x"]}}}

InitSchema ==
    /\ CoreInit
    /\ llm = IdleLLM
    /\ guard = IdleGuard
    /\ prio = IdlePrio
    /\ dedup = IdleDedup
    /\ res = IdleRes
    /\ pub = IdlePub
    /\ docs = IdleDocs
    /\ clus = IdleClus
    /\ hook = IdleHook
    /\ ws = IdleWs
    /\ nap = IdleNap
    /\ prov = IdleProv
    /\ \E ac \in BOOLEAN,
          vl \in UNION {StartTables({"ticket_key"} \cup x) :
                           x \in SUBSET {"priority", "duplicate_of"}},
          rd \in StartTables({"id", "draft_text"}),
          te \in StartTables({"id", "event_type"}) :
          LET db == [t \in TableNames |->
                        IF t = "validations_log" THEN vl
                        ELSE IF t = "resolution_drafts" THEN rd ELSE te]
          IN  schema = [IdleSchema EXCEPT !.autocommit = ac, !.start = db, !.db = db]

SpecSchema == InitSchema /\ [][Startup]_vars

\* search on every ticket text of up to MaxQueryLen fragments
MaxQueryLen == 3

InitWs ==
    /\ CoreInit
    /\ llm = IdleLLM
    /\ guard = IdleGuard
    /\ prio = IdlePrio
    /\ dedup = IdleDedup
    /\ res = IdleRes
    /\ pub = IdlePub
    /\ docs = IdleDocs
    /\ clus = IdleClus
    /\ hook = IdleHook
    /\ nap = IdleNap
    /\ prov = IdleProv
    /\ schema = IdleSchema
    /\ \E en \in BOOLEAN, pr \in {"tavily", "heuristic"},
          t \in Texts(SearchFragments, MaxQueryLen), mr \in {1, 3} :
          ws = [IdleWs EXCEPT !.pc = "called", !.enabled = en, !.provider = pr,
                              !.ticket_text = t, !.max_results = mr]

SpecWs == InitWs /\ [][search]_vars

\* the webhook next to the manual trigger and the poller
NextHook ==
    \/ \E k \in Keys, ev \in WebhookEvents : WebhookCall(k, ev)
    \/ \E k \in Keys : trigger_validation(k) /\ UNCHANGED svcVars
    \/ PollCycle /\ UNCHANGED svcVars
    \/ trigger_workflow /\ UNCHANGED svcVars

SpecHook == Init /\ [][NextHook]_vars

\* cluster_embeddings on every list of up to MaxEmbeddings embeddings
InitClus ==
    /\ CoreInit
    /\ llm = IdleLLM
    /\ guard = IdleGuard
    /\ prio = IdlePrio
    /\ dedup = IdleDedup
    /\ res = IdleRes
    /\ pub = IdlePub
    /\ docs = IdleDocs
    /\ hook = IdleHook
    /\ nap = IdleNap
    /\ prov = IdleProv
    /\ schema = IdleSchema
    /\ ws = IdleWs
    /\ \E n \in 0..MaxEmbeddings : \E embeddings \in [1..n -> Vectors] :
          clus = [IdleClus EXCEPT !.pc = "called", !.embeddings = embeddings]

SpecClus == InitClus /\ [][Cluster]_vars

\* the ingest service over the days
NextDocs ==
    \/ ingest_results
    \/ DayPasses

SpecDocs == Init /\ [][NextDocs]_vars

\* ================================================================= claims
Range(seq) == {seq[i] : i \in DOMAIN seq}
ValidateRuns == {i \in DOMAIN runs : runs[i].wf = "ValidateTicket"}

\* C1: a generate-solutions request that arrives while an accepted request
\* for the same key is still running is answered 409 or 429 and invokes
\* neither the FindResolution workflow nor the in-process activity.
C1_SecondRequestRejected ==
    \A r \in Reqs :
        (req[r].pc = "done" /\ req[r].overlap)
            => /\ req[r].resp \in {"409", "429"}
               /\ req[r].direct = 0
               /\ req[r].wfStarts = 0

\* C2: a request that the guard rejects (429: less than 25 s after an
\* accepted request for the key, 409: a generation in flight) is answered
\* with that status, and no workflow start, retrieval or synthesis happens
\* for it.
C2_RejectedGetsStatus ==
    \A r \in Reqs :
        (req[r].pc = "done" /\ req[r].guard # None)
            => /\ req[r].resp = req[r].guard
               /\ req[r].direct = 0
               /\ req[r].wfStarts = 0

\* C3: the validations log holds at most one record per ticket key, exactly
\* one once an upsert has been applied, carrying the fields of the last
\* applied verdict; and validated_at of a key never decreases.
UniqueRecord ==
    \A k \in Keys :
        IF last_applied[k] = NoVerdict
        THEN RowsOf(k) = {}
        ELSE /\ Cardinality(RowsOf(k)) = 1
             /\ \A row \in RowsOf(k) :
                   /\ row.status = last_applied[k].status
                   /\ row.missing = last_applied[k].missing
                   /\ row.duplicate_of = last_applied[k].duplicate_of

C3_UpsertUniqueness ==
    /\ UniqueRecord
    /\ [][/\ UniqueRecord'
          /\ \A k \in Keys : \A old \in RowsOf(k) :
                \A new \in {row \in validations_log' : row.ticket_key = k} :
                    new.validated_at >= old.validated_at]_vars

\* C3 witness: K1 was inserted first, K2 second, and K1 was upserted again
\* at a later time with another verdict: still one row each.
C3_Witness ==
    /\ \E r1 \in RowsOf("K1"), r2 \in RowsOf("K2") :
          /\ r1.id = 1 /\ r2.id = 2
          /\ r1.validated_at > r2.validated_at
          /\ r1.status = "complete"
    /\ ticket_events["K1"]["validated_incomplete"] = 1

\* C4: a poll cycle whose update checks raise nothing dispatches exactly
\* new \cup stale, new = keys without a record, stale = keys whose status is
\* incomplete and whose updated_at is greater than last_validated_at, and
\* none of the keys whose status is complete.
NewKeys == {k \in Keys : RowsOf(k) = {}}
StaleKeys == {k \in Keys : StatusOf(k) = "incomplete" /\ jira_updated[k] > ValidatedAt(k)}
CompleteKeys == {k \in Keys : StatusOf(k) = "complete"}

C4_DispatchIsNewOrStale ==
    [][(poll_pc = "sleep" /\ poll_pc' = "dispatch" /\ check_errors' = {})
          => /\ Range(tickets_to_process') = NewKeys \cup StaleKeys
             /\ Range(tickets_to_process') \cap CompleteKeys = {}]_vars

C6_OneActiveRun ==
    \A i \in ValidateRuns, j \in ValidateRuns :
        (i < j /\ runs[i].key = runs[j].key) => runs[i].state # "running"

\* C6 witness: an earlier execution was terminated by a later start for the
\* same key, and the later one has gone on to run activities.
C6_Witness ==
    \E i \in ValidateRuns, j \in ValidateRuns :
        /\ i < j
        /\ runs[i].key = runs[j].key
        /\ runs[i].state = "terminated"
        /\ runs[j].state = "running"
        /\ runs[j].pc = "side_effect"

\* C7: once a run has obtained a verdict and has commented, reassigned or
\* returned, the verdict has been upserted: log_validation is among its
\* steps, after verdict, and the validations log holds the record.
C7_VerdictLoggedFirst ==
    \A i \in ValidateRuns :
        (runs[i].status # None
         /\ (runs[i].comments > 0 \/ runs[i].reassigns > 0 \/ runs[i].state = "completed"))
            => /\ \E n \in DOMAIN runs[i].steps : runs[i].steps[n] = "log_validation"
               /\ StatusOf(runs[i].key) = runs[i].status

\* C8: for an incomplete verdict, a side-effect attempt whose reassignment
\* failed while every comment call returned does not fail the workflow and
\* has left the comment; without a reporter no reassignment is attempted.
C8_ReassignFailureDegrades ==
    \A i \in ValidateRuns :
        /\ (runs[i].status = "incomplete" /\ runs[i].reassign_error # None
            /\ ~runs[i].comment_error)
              => (runs[i].state # "failed" /\ runs[i].comments >= 1)
        /\ (runs[i].status = "incomplete" /\ runs[i].reporter = None)
              => runs[i].reassigns = 0

\* C9: a run that finished with a complete verdict has left the 'entered
\* the resolution queue' comment and has not reassigned.
C9_CompleteNotifies ==
    \A i \in ValidateRuns :
        (runs[i].status = "complete" /\ runs[i].state = "completed")
            => (runs[i].comments >= 1 /\ runs[i].reassigns = 0)

\* C10: a run whose verdict status is neither complete nor incomplete has
\* issued no comment and no reassignment and has stopped.
C10_ErrorNoSideEffect ==
    \A i \in ValidateRuns :
        (runs[i].status \notin {None, "complete", "incomplete"})
            => /\ runs[i].comments = 0
               /\ runs[i].reassigns = 0
               /\ runs[i].state = "completed"
               /\ runs[i].pc = "done"

\* C10 witness: runs with verdict status error and with another unknown
\* status have both stopped.
C10_Witness ==
    \E i \in ValidateRuns, j \in ValidateRuns :
        /\ runs[i].status = "error" /\ runs[i].state = "completed"
        /\ runs[j].status = "partial" /\ runs[j].state = "completed"

\* ---- get_validation_verdict
CallsOf(m) == {i \in DOMAIN llm.calls : llm.calls[i].model = m}
FailedCall(i) == llm.calls[i].outcome # "json_object"
LastCallOf(m) == llm.calls[CHOOSE i \in CallsOf(m) : \A i2 \in CallsOf(m) : i2 <= i]
\* provider m was tried and has no attempt left: its last call was the
\* last of range(max_retries) or ended in the break of an authentication error
FailedAllAttempts(m) ==
    /\ CallsOf(m) # {}
    /\ \A i \in CallsOf(m) : FailedCall(i)
    /\ \/ LastCallOf(m).attempt = max_retries - 1
       \/ LastCallOf(m).outcome = "AuthenticationError"

\* C11: get_validation_verdict calls the providers in the order of the
\* fallback chain, skipping none; it returns the JSON object of the first
\* call that succeeds with llm_provider_model set to that provider's name;
\* it returns the sentinel verdict exactly when every provider of the chain
\* failed all of its attempts; and no exception leaves the function.
C11_FallbackChain ==
    /\ llm.pc # "raised"
    /\ llm.calls # <<>> => llm.calls[1].model = 1
    /\ \A i \in DOMAIN llm.calls :
          /\ llm.calls[i].model \in DOMAIN LLM_FALLBACK_CHAIN
          /\ i > 1 => /\ llm.calls[i - 1].model <= llm.calls[i].model
                      /\ llm.calls[i].model <= llm.calls[i - 1].model + 1
                      /\ FailedCall(i - 1)
    /\ llm.pc = "returned" =>
          LET n == Len(llm.calls)
          IN  /\ n > 0
              /\ ~FailedCall(n) =>
                    /\ llm.verdict.llm_provider_model = LLM_FALLBACK_CHAIN[llm.calls[n].model]
                    /\ llm.verdict.module = llm.calls[n].json.module
                    /\ llm.verdict.validation_status = llm.calls[n].json.validation_status
                    /\ \A m \in 1..(llm.calls[n].model - 1) : FailedAllAttempts(m)
              /\ llm.verdict = Sentinel <=>
                    \A m \in DOMAIN LLM_FALLBACK_CHAIN : FailedAllAttempts(m)

\* the last provider of the chain answers after the first two gave up
C11_Witness ==
    /\ llm.pc = "returned"
    /\ llm.verdict.llm_provider_model = LLM_FALLBACK_CHAIN[3]
    /\ llm.verdict.module = "AP.Invoice"
    /\ FailedAllAttempts(1)
    /\ FailedAllAttempts(2)

\* the loops have left provider m
DoneWith(m) == llm.pc = "returned" \/ llm.model > m
AtMostMaxRetries == \A m \in DOMAIN LLM_FALLBACK_CHAIN : Cardinality(CallsOf(m)) <= 3
RateLimitRetried ==
    \A i \in DOMAIN llm.calls :
        (llm.calls[i].outcome = "ResourceExhausted" /\ llm.calls[i].attempt < 2 /\ i < Len(llm.calls))
            => llm.calls[i + 1].model = llm.calls[i].model
AuthAdvances ==
    \A i \in DOMAIN llm.calls :
        (llm.calls[i].outcome = "AuthenticationError" /\ i < Len(llm.calls))
            => llm.calls[i + 1].model = llm.calls[i].model + 1
GenericErrors == {"JSONDecodeError", "Exception"}
GenericRetriedOnce ==
    \A m \in DOMAIN LLM_FALLBACK_CHAIN :
        (/\ DoneWith(m)
         /\ CallsOf(m) # {}
         /\ \A i \in CallsOf(m) : llm.calls[i].outcome \in GenericErrors)
            => Cardinality(CallsOf(m)) = 2

\* C12: each provider is called at most 3 times; a rate-limit error is
\* retried on the same provider; an authentication error moves on to the
\* next provider at once; a provider that only ever fails with an
\* unclassified error or a non-JSON response is called exactly twice
\* before the service moves on.
C12_RetryPolicy ==
    /\ AtMostMaxRetries
    /\ RateLimitRetried
    /\ AuthAdvances
    /\ GenericRetriedOnce

\* ---- validate_solution
InputLines == SplitLines(guard.solution_text)
ContainsUnsafe(line) ==
    \E n \in DOMAIN UNSAFE_COMMAND_PATTERNS :
        Contains(lower(line), lower(UNSAFE_COMMAND_PATTERNS[n]))
UnsafeLines == {n \in DOMAIN InputLines : ContainsUnsafe(InputLines[n])}
ErrorIssues == {n \in DOMAIN guard.issues : guard.issues[n].severity = "error"}

\* C13: the cleaned text consists of exactly the input lines that contain
\* no unsafe command pattern (compared without case), in their order and up
\* to surrounding blanks; every line that contains one has an error issue
\* with its index; and is_valid is false whenever such a line exists.
C13_UnsafeLinesRemoved ==
    guard.pc = "returned" =>
        LET safe == SelectSeq(InputLines, LAMBDA l : ~ContainsUnsafe(l))
        IN  /\ guard.cleaned_text = JoinLines([n \in DOMAIN safe |-> strip(safe[n])])
            /\ \A n \in UnsafeLines :
                  \E k \in ErrorIssues :
                      /\ guard.issues[k].paragraph_index = n - 1
                      /\ guard.issues[k].message = "Unsafe command pattern(s)"
            /\ UnsafeLines # {} => ~guard.is_valid

\* C14: every citation of an internal key outside allowed_internal and every
\* citation of an external index outside allowed_external_indices has an
\* error issue naming it on its line, and is_valid is true exactly when the
\* issue list holds no issue of severity error.
C14_CitationWhitelist ==
    guard.pc = "returned" =>
        /\ \A n \in DOMAIN InputLines :
              \A c \in Range(RawCitations(InputLines[n])) :
                  (\/ c.kind = "INT" /\ c.ref \notin guard.allowed_internal
                   \/ c.kind = "WEB" /\ c.ref \notin guard.allowed_external_indices)
                      => \E k \in ErrorIssues :
                            /\ guard.issues[k].paragraph_index = n - 1
                            /\ guard.issues[k].raw = c
        /\ guard.is_valid <=> ErrorIssues = {}

\* an unknown citation on the second line, after a line that only draws a warning
C14_Witness ==
    /\ guard.pc = "returned"
    /\ ~guard.is_valid
    /\ Len(guard.issues) = 2
    /\ guard.issues[1].severity = "warning"
    /\ guard.issues[2].message = "Unknown internal citation"
    /\ guard.issues[2].paragraph_index = 1

\* ---- classify_priority
HasKeyword(kws, text) == \E n \in DOMAIN kws : Contains(text, kws[n])

\* C19: the priority is P1 whenever the lower-cased text holds a P1
\* keyword, whatever P2 keywords it holds; it is P2 exactly when no P1
\* keyword is present and a P2 keyword or a numeric error code is; it is P3
\* otherwise.  The result depends on summary and description only through
\* that text.
C19_PriorityOrder ==
    prio.pc = "returned" =>
        LET text == PriorityText(prio.summary, prio.description)
            p1 == HasKeyword(P1_KEYWORDS, text)
            p2 == HasKeyword(P2_KEYWORDS, text) \/ NumericErrorCode(text)
        IN  /\ p1 => prio.priority = "P1"
            /\ prio.priority = "P2" <=> (~p1 /\ p2)
            /\ prio.priority = "P3" <=> (~p1 /\ ~p2)
            /\ prio.priority \in {"P1", "P2", "P3"}

\* a P1 keyword in the description wins over P2 keywords in the summary
C19_Witness ==
    /\ prio.pc = "returned"
    /\ prio.priority = "P1"
    /\ HasKeyword(P2_KEYWORDS, lower(OrEmpty(prio.summary)))
    /\ NumericErrorCode(lower(OrEmpty(prio.summary)))
    /\ HasKeyword(P1_KEYWORDS, lower(OrEmpty(prio.description)))

\* ---- duplicate detection
CorpusKeys == {r.ticket_key : r \in dedup.corpus}
\* find_potential_duplicate returns the row the query puts first exactly
\* when that row's distance is strictly below the threshold
DuplicateIffBelowThreshold ==
    (dedup.pc = "returned" /\ ~dedup.raised) =>
        /\ dedup.row \in FirstRows(dedup.corpus)
        /\ dedup.duplicate # None <=>
              /\ dedup.corpus # {}
              /\ dedup.row.embedded
              /\ dedup.row.distance < 35
        /\ dedup.duplicate # None => dedup.duplicate = dedup.row.ticket_key

\* C18: the nearest solved ticket is returned as the duplicate exactly when
\* its distance is strictly below 0.35 (not at 0.35, not for an empty
\* corpus), and the duplicate_of of the verdict that validation returns,
\* when set, is the key of a solved ticket of the corpus.
C18_DuplicateOfExists ==
    /\ DuplicateIffBelowThreshold
    /\ (dedup.pc = "returned" /\ dedup.duplicate_of # None) => dedup.duplicate_of \in CorpusKeys

\* ---- resolution pipeline
Returned == res.pc \in {"returned", "delivered"}
Conf(i) == res.solutions[i].confidence
Valid(i) == res.solutions[i].guardrail_valid
ConfidenceInRange ==
    \A i \in DOMAIN res.solutions :
        /\ 0 <= Conf(i) /\ Conf(i) <= 9800
        /\ ~Valid(i) => Conf(i) <= 5500

\* C15 (as stated): every returned alternative has confidence in [0, 0.98],
\* an alternative the guardrail marked invalid has confidence at most 0.55,
\* and confidence never increases with rank.
C15_ConfidenceMonotone ==
    Returned =>
        /\ ConfidenceInRange
        /\ \A i, j \in DOMAIN res.solutions : i < j => Conf(i) >= Conf(j)

\* C15 (amended): every returned alternative has confidence in [0, 0.98],
\* an alternative the guardrail marked invalid has confidence at most 0.55,
\* and confidence does not increase with rank among the alternatives the
\* guardrail marked valid, nor among those it marked invalid.
C15_ConfidenceBounds ==
    Returned =>
        /\ ConfidenceInRange
        /\ \A i, j \in DOMAIN res.solutions :
              (i < j /\ Valid(i) = Valid(j)) => Conf(i) >= Conf(j)

\* three alternatives, the first one invalid and cut to 0.55, the valid
\* ones after it decayed from a higher base
C15_Witness ==
    /\ res.pc = "returned"
    /\ res.path = "normal"
    /\ Len(res.solutions) = 3
    /\ ~Valid(1) /\ Conf(1) = 5500
    /\ Valid(2) /\ Valid(3)
    /\ Conf(2) > Conf(3)

\* C16: the escalate flag of a delivered payload that carries solutions is
\* true exactly when one of its alternatives has confidence below 0.2.
C16_EscalateDelivered ==
    res.pc = "delivered" =>
        (res.payload_escalate <=> \E i \in DOMAIN res.solutions : Conf(i) < 2000)

\* C17: external search runs exactly when there is no internal result, or
\* the smallest internal distance is above 0.55, or the gap between the two
\* smallest, relative to the smallest plus 1e-6, is above 1.2; when search
\* or ingest raises, the external source list is empty and the pipeline
\* goes on to return solutions.
C17_ExternalTrigger ==
    res.pc \notin {"idle", "called"} =>
        LET D == res.internal_distances
        IN  /\ res.searched <=>
                  \/ D = <<>>
                  \/ D[1] > 55
                  \/ Len(D) > 1 /\ 10 * (D[2] - D[1]) * 10000 > 12 * (D[1] * 10000 + 1)
            /\ \A i \in DOMAIN D : i > 1 => D[i - 1] <= D[i]
            /\ ~res.searched => res.external_sources = 0
            /\ res.external_outcome = "raise" =>
                  /\ res.external_sources = 0
                  /\ Returned => res.solutions # <<>>

\* the gap between 0.25 and 0.56 triggers a search that raises; the
\* pipeline still delivers its alternatives
C17_Witness ==
    /\ res.pc = "delivered"
    /\ res.internal_distances = <<25, 56>>
    /\ res.searched
    /\ res.external_outcome = "raise"
    /\ res.path = "normal"

\* ---- duplicate short-circuit
\* C20: an accepted generate-solutions request for a ticket whose validation
\* record names a duplicate is answered with the duplicate payload, has its
\* duplicate_short_circuit event in the timeline, and has started no
\* FindResolution workflow and made no in-process pipeline call (retrieval
\* and model calls happen only there and in the workflow).
C20_DuplicateShortCircuit ==
    \A r \in Reqs :
        (/\ req[r].pc = "done"
         /\ req[r].guard = None
         /\ DuplicateOf(req[r].key) # None)
            => /\ req[r].resp = "duplicate"
               /\ ticket_events[req[r].key]["duplicate_short_circuit"] >= 1
               /\ req[r].wfStarts = 0
               /\ req[r].direct = 0

\* ---- generate-solutions: low-info short-circuit and in-process fallback
\* C21: an accepted request for a ticket that is not a duplicate and whose
\* bundled text is shorter than 120 characters is answered needs_more_info
\* and has started no workflow and made no in-process pipeline call, also
\* when the workflow engine is unreachable.
C21_LowInfoShortCircuit ==
    \A r \in Reqs :
        (/\ req[r].pc = "done"
         /\ req[r].guard = None
         /\ req[r].textlen \in TextLens
         /\ req[r].textlen < 120
         /\ DuplicateOf(req[r].key) = None)
            => /\ req[r].resp = "needs_more_info"
               /\ req[r].direct = 0
               /\ req[r].wfStarts = 0

EngineFailed(r) == req[r].raised \in {"connect", "start_workflow", "result"}

C23_RecordAfterComment ==
    \A i \in DOMAIN pub.resolution_log :
        /\ pub.resolution_log[i].comments > 0
        /\ ~pub.resolution_log[i].post_raised

\* C24: every ResolutionRecord of a ticket was created while the ticket's
\* ValidationRecord existed with status complete.
C24_RecordNeedsCompleteValidation ==
    \A i \in DOMAIN pub.resolution_log :
        pub.resolution_log[i].validation_status = "complete"

\* C29: a failed persistence write inside an activity of a workflow run
\* makes the attempt fail (retried or, at the limit, failing the run); the
\* run does not complete as if the write had succeeded.
C29_WriteFailureFailsActivity ==
    (pub.via = "workflow" /\ pub.write_raised) => pub.state # "completed"

\* ---- validation records
\* C25: every ValidationRecord with status complete has an empty
\* missing_fields list, whatever JSON the provider returned.
C25_CompleteHasNoMissing ==
    \A row \in validations_log : row.status = "complete" => row.missing = 0

\* ---- polling interval
\* C26: the polling loop sleeps, between two regular cycles, the adaptive
\* interval of the current number of incomplete tickets.
C26_SleepIsAdaptive ==
    nap.regular => nap.seconds = AdaptiveInterval(nap.incomplete_count, interval_minutes * 60)

\* ---- compliance scrub
\* C27: every ticket text sent to a model provider, on the validation path,
\* the synthesis path and the in-process fallback, is the scrubber's output.
C27_ProviderTextScrubbed ==
    prov.pc = "sent" => prov.provider_text = scrub(prov.bundled_text)[1]

\* ---- schema evolution
\* row r of the starting table is still there, with its values unchanged
RowKept(t, r) ==
    \E r2 \in schema.db[t].rows : \A c \in DOMAIN r : r2[c] = r[c]

\* C28: any number of runs of _ensure_schema_extensions from any starting
\* schema leaves the schema one run leaves, and every existing row stays
\* with its values.
C28_SchemaEvolutionIdempotent ==
    schema.startups >= 1 =>
        /\ schema.db = schema.once
        /\ \A t \in TableNames :
              /\ schema.start[t].exists => schema.db[t].exists
              /\ Cardinality(schema.db[t].rows) = Cardinality(schema.start[t].rows)
              /\ \A r \in schema.start[t].rows : RowKept(t, r)

C28_Witness ==
    /\ schema.startups = 2
    /\ schema.autocommit
    /\ schema.start["validations_log"].columns = {"ticket_key"}
    /\ schema.start["validations_log"].rows # {}
    /\ schema.start["ticket_events"].rows # {}
    /\ ~schema.start["resolution_drafts"].exists
    /\ schema.db["validations_log"].columns = {"ticket_key", "priority", "duplicate_of"}
    /\ schema.db["resolution_drafts"].exists

\* ---- web search audit
\* C30: every call of search that the enabled service served (provider
\* success, provider without results, provider failure, heuristic only)
\* wrote exactly one audit row, and a provider failure is answered with
\* the heuristic results.
C30_OneAuditRowPerSearch ==
    (ws.pc = "returned" /\ ws.enabled /\ ~ws.audit_failed) =>
        /\ Len(ws.audit) = 1
        /\ ws.provider_outcome = "failure" => ws.served_by = "heuristic"

\* ---- webhook
\* C31: the webhook answers 200 for every payload, also when the engine is
\* unreachable or the start fails, and a ValidateTicket workflow for
\* issue.key is started only for issue_created and issue_updated; for
\* every other event nothing is attempted.
C31_WebhookAlways200 ==
    hook.webhook_event # None =>
        /\ hook.status_code = 200
        /\ hook.outcome \in {"started", "raised"}
              <=> hook.webhook_event \in {"jira:issue_created", "jira:issue_updated"}
        /\ hook.outcome = "started" =>
              /\ runs[hook.run].wf = "ValidateTicket"
              /\ runs[hook.run].key = hook.key

C31_Witness ==
    /\ hook.webhook_event = "jira:issue_updated"
    /\ hook.outcome = "raised"
    /\ hook.status_code = 200

\* ---- validate_solution: citation coverage
\* the stripped lines of the text validate_solution was called with
C32_Paragraphs ==
    [n \in DOMAIN SplitLines(guard.solution_text) |-> strip(SplitLines(guard.solution_text)[n])]

\* C32: a non-empty line gets the 'lacks citations' warning if and only if
\* it has more than 4 words and holds neither an [INT:<key>] nor a
\* [WEB:<n>] citation; a line with an [INT:<key>] citation never gets it.
C32_LacksCitationsWarning ==
    guard.pc = "returned" =>
        \A n \in DOMAIN C32_Paragraphs :
            C32_Paragraphs[n] # <<>> =>
                ((\E m \in DOMAIN guard.issues :
                     /\ guard.issues[m].message = "Paragraph lacks citations"
                     /\ guard.issues[m].paragraph_index = n - 1)
                 <=> (WordCount(C32_Paragraphs[n]) > 4 /\ RawCitations(C32_Paragraphs[n]) = <<>>))

\* C33: when the model service yields no usable alternative (only empty
\* texts, the 'No alternatives generated.' entry, or the entry of a failed
\* client initialisation) and at least one source was retrieved, the
\* activity returns exactly one alternative: the heuristic one, with provider
\* local-fallback and confidence base * 0.5 rounded to four places.
C33_NoUsableAlternative ==
    \/ res.generation \in {"init_failed", "placeholder"}
    \/ \A n \in DOMAIN res.alts : res.alts[n].blank

C33_HeuristicFallback ==
    (res.pc = "returned" /\ res.path # "no_source" /\ C33_NoUsableAlternative) =>
        /\ Len(res.solutions) = 1
        /\ res.solutions[1].llm_provider_model = "local-fallback"
        /\ res.solutions[1].confidence =
               Round4(compute_confidence(res.internal_distances, 1000000,
                                         res.external_sources > 0) \div 2)

\* C34: the indices cluster_embeddings returns are strictly increasing,
\* start with 0 when there is an embedding, are pairwise below the similarity
\* threshold, and cover the input: every other index is at or above the
\* threshold with a representative that precedes it.
C34_Reps == {clus.representatives[n] : n \in DOMAIN clus.representatives}

C34_Similar(i, j) ==
    CosineAtLeast(clus.embeddings[i + 1], clus.embeddings[j + 1], similarity_threshold)

C35_OneRowPerUrlWithTTL ==
    /\ \A n \in DOMAIN docs.rows, m \in DOMAIN docs.rows :
          docs.rows[n].url = docs.rows[m].url => n = m
    /\ \A n \in DOMAIN docs.rows :
          docs.rows[n].expires_at = docs.rows[n].fetched_at + DEFAULT_TTL_DAYS

\* C36: a request for K that the guard rejects while an accepted request
\* for K is still running leaves the in-flight marker, the rate-window
\* timestamp and the active-session entry of K as they were.
C36_RejectionLeavesMarkers ==
    [][\A r \in Reqs, k \in Keys :
          (/\ req[r].pc = "idle" /\ req'[r].pc = "done"
           /\ req'[r].key = k /\ req'[r].guard # None
           /\ Running(k))
             => /\ (k \in _inflight') <=> (k \in _inflight)
                /\ _last_generation'[k] = _last_generation[k]
                /\ _active_sessions'[k] = _active_sessions[k]]_vars

\* C37: whenever no accepted request for K is between its guard and its
\* finally block, K is neither in _inflight nor in _active_sessions; and a
\* request answered on the 409 branch of the guard arrived while another
\* one was running.
C37_Executing(k) ==
    \E r \in Reqs : req[r].key = k /\ req[r].pc \in {"connect", "start", "result"}

C37_NoStaleMarkers ==
    /\ \A k \in Keys :
          ~C37_Executing(k) => k \notin _inflight /\ _active_sessions[k] = 0
    /\ \A r \in Reqs :
          (req[r].pc = "done" /\ req[r].guard = "409") => req[r].overlap

\* a generation for K1 failed at start_workflow and in the fallback, and the
\* markers of K1 are gone
C37_Witness ==
    \E r \in Reqs :
        /\ req[r].pc = "done" /\ req[r].key = "K1"
        /\ req[r].resp = "500_both" /\ req[r].raised = "start_workflow"
        /\ ~C37_Executing("K1")
        /\ "K1" \notin _inflight /\ _active_sessions["K1"] = 0

\* C38: every started workflow is on a task queue the worker polls, so with
\* a worker that keeps running its first step is eventually executed (or
\* the run is terminated by a later start for the same key).
C38_StartedIsPickedUp ==
    \A i \in 1..MaxRuns :
        (i \in DOMAIN runs /\ runs[i].state = "running" /\ runs[i].pc = "fetch")
            ~> (i \in DOMAIN runs /\ (runs[i].state # "running" \/ runs[i].pc # "fetch"))

\* C39: the attempts of the incomplete side-effect step of one validation
\* run post at most one missing-fields comment between them, and exactly one
\* once the step has returned, also when the reassignment failed after the
\* comment was added.
C39_CommentPostedOnce ==
    \A i \in DOMAIN runs :
        /\ runs[i].comments <= 1
        /\ (runs[i].pc = "done" /\ runs[i].status = "incomplete") => runs[i].comments = 1

====
